---- MODULE Spec2Model ----
(***************************************************************************)
(* Model of the aiNions orchestration engine (src/app/graph.py,            *)
(* src/app/agents.py, src/app/schemas.py): the NionGraph run entry points  *)
(* and stage nodes, the router _router_l1_to_l2, the retry_on_429 wrapper  *)
(* and the cache_result wrapper with its Redis tier and in-memory tier.    *)
(*                                                                         *)
(* Eight specifications share the variables:                               *)
(*   Spec        one NionGraph instance serving runs (invoke,              *)
(*               invoke_simple) behind the HTTP handlers, stage by stage   *)
(*   SpecRouter  _router_l1_to_l2 applied to the plans a state can hold    *)
(*   SpecRetry   one call of a retry_on_429-wrapped operation              *)
(*   SpecCache   calls of a cache_result-wrapped lookup over time          *)
(*   SpecConc    threads calling the cache_result wrapper at the same time *)
(*   SpecEval    evaluate_output applied to a results map                  *)
(*   SpecPlanner _node_l1_orchestrator applied to a generation response    *)
(*   SpecTracking one call of _node_l2_tracking, external call by call     *)
(* Python names are kept; a leading underscore is dropped.                 *)
(***************************************************************************)
EXTENDS Integers, Sequences, FiniteSets, TLC

VARIABLES
    \* ---- OrchestrationState of the current run and the executor's position
    entry,                  \* "invoke" | "invoke_simple" | "none"
    pc,                     \* "idle", the node about to be invoked, "done", "aborted"
    trace,                  \* nodes invoked so far in the current run, in order
    input_message,          \* state.input_message
    plan,                   \* state.plan
    execution_results,      \* state.execution_results
    cross_cutting_context,  \* state.cross_cutting_context
    logs,                   \* state.logs
    state_id,               \* state.state_id
    error,                  \* the exception that ended the run, or NoError
    runs,                   \* number of runs started on this NionGraph instance
    given,                  \* what the generation client gave the current run, per call
    logger_errors,          \* logger.error records of the current run, in order
    response,               \* what the HTTP handler of the current run answered
    \* ---- router calls
    routes,                 \* values returned by _router_l1_to_l2 on the current plan
    \* ---- retry_on_429 wrapper
    r_pc,                   \* "idle" | "loop" | "returned" | "raised" | "exhausted"
    max_retries,            \* decorator argument
    retries,                \* local variable retries
    delay,                  \* local variable delay
    calls,                  \* invocations of the wrapped func in this wrapper call
    slept,                  \* arguments of time.sleep in this wrapper call, in order
    script,                 \* what the k-th invocation of func does, k = 1, 2, ...
    r_out,                  \* what the wrapper call returned or raised
    \* ---- cache_result wrapper
    now,                    \* time.time()
    memory_cache,           \* _memory_cache: key -> <<value, expiry>>
    redis_store,            \* the Redis server: key -> <<json text, expiry>>
    c_call,                 \* the last wrapper call: what it found, did and returned
    computedAt,             \* per key, when func last returned a value for it, and the value
    \* ---- threads calling the cache_result wrapper at the same time
    threads,                \* per thread: where its wrapper call stands and what it saw
    \* ---- evaluate_output called on its own
    ev_results,             \* the execution_results argument
    ev_out,                 \* what the call returned or raised
    \* ---- _node_l1_orchestrator called on its own
    pl_response,            \* what self.l1_llm.invoke does
    pl_out,                 \* what the node returned or raised
    \* ---- _node_l2_tracking, external call by external call
    tk_pc,                  \* the call that is due, or "returned" / "raised"
    tk_script,              \* per extraction operation, what its successive invocations do
    tk_log,                 \* the external calls made so far, in order
    tk_retries,             \* the wrapper's local `retries` of the wrapped call under way
    tk_delay,               \* the wrapper's local `delay` of the wrapped call under way
    tk_slept,               \* per extraction operation, the time.sleep arguments so far
    tk_out                  \* what the node call ended with

pipeVars  == <<entry, pc, trace, input_message, plan, execution_results,
               cross_cutting_context, logs, state_id, error, runs,
               given, logger_errors, response>>
retryVars == <<r_pc, max_retries, retries, delay, calls, slept, script, r_out>>
cacheVars == <<now, memory_cache, redis_store, c_call, computedAt>>
concVars  == <<threads>>
evalVars  == <<ev_results, ev_out>>
planVars  == <<pl_response, pl_out>>
trackVars == <<tk_pc, tk_script, tk_log, tk_retries, tk_delay, tk_slept, tk_out>>
auxVars   == <<concVars, evalVars, planVars, trackVars>>
vars      == <<pipeVars, routes, retryVars, cacheVars, auxVars>>

\* what the actions of each specification leave alone
routerFrame == <<pipeVars, retryVars, cacheVars, auxVars>>
retryFrame  == <<pipeVars, routes, cacheVars, auxVars>>
cacheFrame  == <<pipeVars, routes, retryVars, auxVars>>
pipeFrame   == <<routes, retryVars, auxVars>>
concFrame   == <<pipeVars, routes, retryVars, c_call, computedAt, evalVars, planVars, trackVars>>
evalFrame   == <<pipeVars, routes, retryVars, cacheVars, concVars, planVars, trackVars>>
planFrame   == <<pipeVars, routes, retryVars, cacheVars, concVars, evalVars, trackVars>>
trackFrame  == <<pipeVars, routes, retryVars, cacheVars, concVars, evalVars, planVars>>

Last(s) == s[Len(s)]

IsPrefix(s, t) == Len(s) <= Len(t) /\ \A i \in 1..Len(s) : s[i] = t[i]

SeqsUpTo(S, n) == UNION {[1..k -> S] : k \in 0..n}

\* A Python dict {}: the function with empty domain.
EmptyDict == <<>>

(***************************************************************************)
(* Bounds of the model.                                                    *)
(***************************************************************************)
MaxPlanLen == 3      \* longest plan handed to the router
MaxPriority == 3     \* router task priorities range over 1..MaxPriority
MaxRouterCalls == 2  \* router calls on one plan
MaxRetriesArg == 4   \* max_retries arguments range over 0..MaxRetriesArg
MaxTtlSpans == 2     \* the clock runs up to MaxTtlSpans * ttl seconds
MaxRuns == 2         \* runs started on one NionGraph instance
MaxTasks == 2        \* tasks in the Planner's generation response
MaxItems == 1        \* records returned by one extraction operation
MaxThreads == 2      \* threads calling the cache wrapper at the same time
MaxConcCalls == 2    \* wrapper calls made by one thread
MaxResults == 3      \* entries of a results map handed to evaluate_output

(***************************************************************************)
(* schemas.py                                                              *)
(***************************************************************************)
\* TaskType (a str Enum: its members compare equal to these strings)
TaskType == {"L2_Tracking", "L2_Communication", "Cross_Knowledge"}

\* a Task built with the schema's default status, whatever status is given
Task_Pending(task_id, domain, priority, status) ==
    [task_id |-> task_id, domain |-> domain, priority |-> priority, status |-> "PENDING"]

\* Task: description is free text no code path reads; it is left out.
Task(task_id, domain, priority, status) ==
    [task_id |-> task_id, domain |-> domain, priority |-> priority, status |-> status]

\* f"PLAN-{n}"
PlanId(n) == <<"PLAN-1", "PLAN-2", "PLAN-3", "PLAN-4", "PLAN-5">>[n]

(***************************************************************************)
(* graph.py: _router_l1_to_l2                                              *)
(***************************************************************************)
RECURSIVE MinFromLast(_, _, _)
MinFromLast(p, i, best) ==
    IF i > Len(p) THEN best
    ELSE MinFromLast(p, i + 1, IF p[i].priority <= p[best].priority THEN i ELSE best)

\* a min that keeps the last of several equal keys
PyMinIndex_KeepsLast(p) == MinFromLast(p, 2, 1)

RECURSIVE MinFrom(_, _, _)
MinFrom(p, i, best) ==
    IF i > Len(p) THEN best
    ELSE MinFrom(p, i + 1, IF p[i].priority < p[best].priority THEN i ELSE best)

\* Python's min(iterable, key=...) on a non-empty list: it scans left to right
\* and replaces the element it holds only by one with a strictly smaller key.
PyMinIndex(p) == MinFrom(p, 2, 1)

\* a router that sends an empty plan to the first coordinator
router_l1_to_l2_EmptyToTracking(p) ==
    IF p = <<>> THEN "L2_Tracking"
    ELSE LET next_task == p[PyMinIndex(p)] IN
         IF next_task.domain \in TaskType THEN next_task.domain ELSE "Evaluator"

router_l1_to_l2(p) ==
    IF p = <<>> THEN "Evaluator"
    ELSE LET next_task == p[PyMinIndex(p)] IN
         IF next_task.domain = "L2_Tracking" THEN "L2_Tracking"
         ELSE IF next_task.domain = "L2_Communication" THEN "L2_Communication"
         ELSE IF next_task.domain = "Cross_Knowledge" THEN "Cross_Knowledge"
         ELSE "Evaluator"

\* The router reads state.plan of an OrchestrationState, whose plan is a
\* validated List[Task]: every domain is a TaskType member, priority an int.
RouterPlans ==
    UNION {{[i \in 1..k |-> Task(PlanId(i), d[i], q[i], "IN_PROGRESS")] :
              d \in [1..k -> TaskType], q \in [1..k -> 1..MaxPriority]} :
           k \in 0..MaxPlanLen}

\* no exception has ended the run
NoError == [kind |-> "none"]

\* the handler has not answered
NoResponse == [status_code |-> 0]

PipeIdle ==
    /\ entry = "none" /\ pc = "idle" /\ trace = <<>>
    /\ input_message = EmptyDict /\ plan = <<>> /\ execution_results = EmptyDict
    /\ cross_cutting_context = EmptyDict /\ logs = <<>> /\ state_id = 0
    /\ error = NoError /\ runs = 0
    /\ given = EmptyDict /\ logger_errors = <<>> /\ response = NoResponse

RetryIdle ==
    /\ r_pc = "idle" /\ max_retries = 0 /\ retries = 0 /\ delay = 0 /\ calls = 0
    /\ slept = <<>> /\ script = <<>> /\ r_out = "none"

\* no wrapper call made yet
NoCall == [called |-> FALSE]

CacheIdle ==
    /\ now = 0 /\ memory_cache = EmptyDict /\ redis_store = EmptyDict
    /\ c_call = NoCall /\ computedAt = EmptyDict

\* no thread has called the wrapper
ConcIdle == threads = EmptyDict

\* evaluate_output has not been called on its own
EvalIdle == ev_results = EmptyDict /\ ev_out = NoCall

PlanIdle == pl_response = NoResponse /\ pl_out = NoCall

TrackIdle ==
    /\ tk_pc = "idle" /\ tk_script = EmptyDict /\ tk_log = <<>> /\ tk_retries = 0
    /\ tk_delay = 0 /\ tk_slept = EmptyDict /\ tk_out = NoCall

AuxIdle == ConcIdle /\ EvalIdle /\ PlanIdle /\ TrackIdle

RouterInit ==
    /\ entry = "none" /\ pc = "idle" /\ trace = <<>>
    /\ input_message = EmptyDict
    /\ plan \in RouterPlans
    /\ execution_results = EmptyDict /\ cross_cutting_context = EmptyDict
    /\ logs = <<>> /\ state_id = 0 /\ error = NoError /\ runs = 0
    /\ given = EmptyDict /\ logger_errors = <<>> /\ response = NoResponse
    /\ routes = <<>>
    /\ RetryIdle /\ CacheIdle /\ AuxIdle

RouterCall ==
    /\ Len(routes) < MaxRouterCalls
    /\ routes' = Append(routes, router_l1_to_l2(plan))
    /\ UNCHANGED routerFrame

RouterNext == RouterCall

SpecRouter == RouterInit /\ [][RouterNext]_vars

\* C3: for every non-empty plan each router call returns the stage of the
\* domain of the first task, in plan order, whose priority is the numeric
\* minimum of the plan; repeated calls on the same plan return the same stage.
C3_RouterMinPriority ==
    plan # <<>> =>
        \E i \in 1..Len(plan) :
            /\ \A j \in 1..Len(plan) : plan[i].priority <= plan[j].priority
            /\ \A j \in 1..(i - 1) : plan[j].priority > plan[i].priority
            /\ \A c \in 1..Len(routes) : routes[c] = plan[i].domain

\* a plan whose minimum priority is shared by two tasks of different domains,
\* the later of them last, routed twice
C3_Witness ==
    /\ Len(plan) = 3 /\ Len(routes) = 2
    /\ plan[1].priority > plan[2].priority
    /\ plan[2].priority = plan[3].priority
    /\ plan[2].domain # plan[3].domain
    /\ routes[1] = plan[2].domain

\* C4: for an empty plan every router call returns the Evaluator stage.
C4_EmptyPlanToEvaluator ==
    plan = <<>> => \A c \in 1..Len(routes) : routes[c] = "Evaluator"

C4_Witness == plan = <<>> /\ Len(routes) = 2 /\ routes[1] = "Evaluator"

(***************************************************************************)
(* agents.py: retry_on_429                                                 *)
(***************************************************************************)
\* the decorator's default arguments
DefaultMaxRetries == 3
initial_delay == 4

\* What one invocation of the wrapped func does: it returns, or it raises an
\* exception of some type whose str() holds "429" or not.
FuncReturns == [kind |-> "return", value |-> "func_result"]
Raises(type, has429) == [kind |-> "raise", type |-> type, has429 |-> has429]
FuncOutcomes ==
    {FuncReturns, Raises("ResourceExhausted", TRUE), Raises("ResourceExhausted", FALSE),
     Raises("Exception", TRUE), Raises("Exception", FALSE)}

\* Exception(f"Max retries exceeded for Rate Limit in {func.__name__}")
MaxRetriesExceeded(name) ==
    [kind |-> "raise", type |-> "Exception", has429 |-> FALSE,
     msg |-> "Max retries exceeded for Rate Limit in", func |-> name]

\* the name of the wrapped operation (functools.wraps keeps func.__name__)
FuncName == "extract_action_items"

\* a classification by exception type alone
IsRetryable_TypeOnly(e) == e.type = "ResourceExhausted"

\* a classification that retries every exception
IsRetryable_Any(e) == e.kind = "raise"

\* except ResourceExhausted, or except Exception with "429" in str(e)
IsRetryable(e) == e.type = "ResourceExhausted" \/ e.has429

\* a backoff that grows by initial_delay each time
NextDelay_Linear(d) == d + initial_delay

\* delay *= 2
NextDelay(d) == d * 2

\* a wrapper that skips the sleep when no attempt is left
Sleeps_UnlessLast(r, m) == r + 1 < m

\* time.sleep(delay) stands in both except branches without a condition: it
\* runs whatever the retry count r and the limit m are
Sleeps(r, m) == TRUE

\* a loop that allows one attempt too many
LoopContinues_OneMore(r, m) == r <= m

\* while retries < max_retries
LoopContinues(r, m) == r < m

ScriptLen == MaxRetriesArg + 1

RetryInit ==
    /\ PipeIdle /\ routes = <<>> /\ CacheIdle /\ AuxIdle
    /\ r_pc = "idle"
    /\ max_retries \in 0..MaxRetriesArg
    /\ script \in [1..ScriptLen -> FuncOutcomes]
    /\ retries = 0 /\ delay = 0 /\ calls = 0 /\ slept = <<>> /\ r_out = "none"

\* wrapper(*args, **kwargs) is entered: retries = 0, delay = initial_delay
RetryEnter ==
    /\ r_pc = "idle"
    /\ r_pc' = "loop"
    /\ retries' = 0
    /\ delay' = initial_delay
    /\ UNCHANGED <<max_retries, calls, slept, script, r_out>>
    /\ UNCHANGED retryFrame

\* one iteration of the while loop: func is invoked; its result is returned,
\* a retryable failure is slept on and counted, any other failure is re-raised
RetryAttempt ==
    /\ r_pc = "loop"
    /\ LoopContinues(retries, max_retries)
    /\ LET o == script[calls + 1] IN
        /\ calls' = calls + 1
        /\ IF o.kind = "return"
           THEN /\ r_pc' = "returned"
                /\ r_out' = o
                /\ UNCHANGED <<retries, delay, slept>>
           ELSE IF IsRetryable(o)
           THEN /\ slept' = IF Sleeps(retries, max_retries)
                             THEN Append(slept, delay) ELSE slept
                /\ retries' = retries + 1
                /\ delay' = NextDelay(delay)
                /\ UNCHANGED <<r_pc, r_out>>
           ELSE /\ r_pc' = "raised"
                /\ r_out' = o
                /\ UNCHANGED <<retries, delay, slept>>
    /\ UNCHANGED <<max_retries, script>>
    /\ UNCHANGED retryFrame

\* the loop condition fails: raise Exception("Max retries exceeded ...")
RetryGiveUp ==
    /\ r_pc = "loop"
    /\ ~LoopContinues(retries, max_retries)
    /\ r_pc' = "exhausted"
    /\ r_out' = MaxRetriesExceeded(FuncName)
    /\ UNCHANGED <<max_retries, retries, delay, calls, slept, script>>
    /\ UNCHANGED retryFrame

RetryNext == RetryEnter \/ RetryAttempt \/ RetryGiveUp

SpecRetry == RetryInit /\ [][RetryNext]_vars

RetryFinished == r_pc \in {"returned", "raised", "exhausted"}

\* the first n invocations of func fail with a rate-limit classified error
FailsRetryably(n) ==
    \A k \in 1..n : script[k].kind = "raise" /\ (script[k].type = "ResourceExhausted" \/ script[k].has429)

\* C5: if func fails with a rate-limit classified error exactly n < max_retries
\* times and then succeeds, the wrapper call returns func's result and func
\* was invoked exactly n + 1 times.
C5_RetrySucceedsAfterTransient ==
    \A n \in 0..(max_retries - 1) :
        (FailsRetryably(n) /\ script[n + 1] = FuncReturns /\ RetryFinished)
            => (r_pc = "returned" /\ r_out = FuncReturns /\ calls = n + 1)

\* two transient failures, one by type and one by message, then success
C5_Witness ==
    /\ max_retries = DefaultMaxRetries
    /\ script[1] = Raises("ResourceExhausted", FALSE)
    /\ script[2] = Raises("Exception", TRUE)
    /\ script[3] = FuncReturns
    /\ r_pc = "returned" /\ calls = 3

\* C6: if func always fails with a rate-limit classified error, the wrapper
\* call raises the retries-exhausted failure naming func after exactly
\* max_retries invocations of func; no wrapper call invokes func more often.
C6_RetryExhaustion ==
    /\ calls <= max_retries
    /\ (FailsRetryably(ScriptLen) /\ RetryFinished)
            => (r_pc = "exhausted" /\ r_out = MaxRetriesExceeded(FuncName)
                /\ calls = max_retries)

C6_Witness ==
    /\ max_retries = DefaultMaxRetries
    /\ FailsRetryably(ScriptLen)
    /\ r_pc = "exhausted" /\ calls = 3

\* C7: if an invocation of func fails with an error that is not rate-limit
\* classified, the wrapper call raises that same error at once: func is not
\* invoked again and nothing is slept for that failure (one invocation and no
\* sleep at all when it is the first call that fails).
C7_RetryPassThrough ==
    \A k \in 1..max_retries :
        (FailsRetryably(k - 1) /\ script[k] = Raises("Exception", FALSE) /\ calls >= k)
            => (r_pc = "raised" /\ r_out = script[k] /\ calls = k /\ Len(slept) = k - 1)

C7_Witness ==
    /\ script[1] = Raises("Exception", FALSE)
    /\ r_pc = "raised" /\ calls = 1 /\ slept = <<>>

(***************************************************************************)
(* agents.py: get_redis_client, _memory_cache, cache_result,               *)
(* CrossCuttingAgents.retrieve_knowledge                                   *)
(***************************************************************************)
\* @cache_result(ttl=60) on retrieve_knowledge (RedisConfig.TTL is 60 too)
ttl == 60

\* Python's None
None == [none |-> TRUE]

\* project ids of requests: one in MOCK_KNOWLEDGE_BASE, one not
ProjectIds == {"PRJ-ALPHA", "PRJ-UNKNOWN"}

\* the body of retrieve_knowledge: MOCK_KNOWLEDGE_BASE.get(project_id, {error...})
retrieve_knowledge_body(project_id) ==
    IF project_id = "PRJ-ALPHA"
    THEN [project_name |-> "Project Alpha - Real-time Customer Platform",
          budget |-> 150000, precedents |-> "Similar feature ...", risk_threshold |-> "HIGH"]
    ELSE [error |-> "Project not found", project_id |-> project_id,
          available_projects |-> <<"PRJ-ALPHA", "PRJ-BETA">>]

\* cache_key = f"{func.__name__}:{str(args)}:{str(kwargs)}"
CacheKey(name, args) == <<name, args, "{}">>

KnowledgeKey(project_id) == CacheKey("retrieve_knowledge", <<project_id>>)

\* json.dumps(result, default=str) and json.loads on the values cached here:
\* dicts with str keys holding str, int, list and None, which JSON text holds
\* as they are.  The text is kept apart from the value it encodes.
JsonDumps(v) == <<"json", v>>
JsonLoads(text) == text[2]

\* What the Redis server does during one wrapper call.
RedisEnvs == [connect : {"ok", "error"}, get : {"ok", "error"}, set : {"ok", "error"}]

\* get_redis_client(): the client, or None when Redis() or ping() raises
get_redis_client(env) == IF env.connect = "ok" THEN [client |-> "Redis"] ELSE None

\* an entry is served up to and including its expiry instant
MemoryFresh_Inclusive(e, t) == t <= e.expiry

\* time.time() < expiry
MemoryFresh(e, t) == t < e.expiry

\* an expiry that forgets the ttl
Expiry_NoTtl(t, l) == t

\* time.time() + ttl; SETEX key ttl value expires the key ttl seconds on
Expiry(t, l) == t + l

\* a read error that ends the call with None
TryRedisGet_ErrorReturnsNone(red, t, key, env) ==
    IF env.get = "error" THEN [hit |-> TRUE, text |-> JsonDumps(None)]
    ELSE IF key \in DOMAIN red /\ t < red[key].expiry
    THEN [hit |-> TRUE, text |-> red[key].text]
    ELSE [hit |-> FALSE]

\* try: cached = redis_client.get(cache_key) ... except Exception: warning.
\* The server holds a key until its expiry; a get that raises is a miss.
TryRedisGet(red, t, key, env) ==
    IF env.get = "error" THEN [hit |-> FALSE]
    ELSE IF key \in DOMAIN red /\ t < red[key].expiry
    THEN [hit |-> TRUE, text |-> red[key].text]
    ELSE [hit |-> FALSE]

\* try: redis_client.setex(cache_key, ttl, json.dumps(...)) except: warning
TryRedisSetex(red, t, key, l, text, env) ==
    IF env.set = "error" THEN red
    ELSE [k \in DOMAIN red \cup {key} |->
            IF k = key THEN [text |-> text, expiry |-> Expiry(t, l)] ELSE red[k]]

Returned(v) == [kind |-> "return", value |-> v]

\* a wrapper that stores what func raised as if it were its result
cache_wrapper_CachesFailure(mem, red, t, key, l, env, outcome) ==
    LET redis_client == get_redis_client(env)
        cached == IF redis_client # None THEN TryRedisGet(red, t, key, env)
                  ELSE [hit |-> FALSE]
    IN  IF cached.hit
        THEN [out |-> Returned(JsonLoads(cached.text)), tier |-> "redis",
              computed |-> FALSE, mem |-> mem, red |-> red]
        ELSE IF key \in DOMAIN mem /\ MemoryFresh(mem[key], t)
        THEN [out |-> Returned(mem[key].value), tier |-> "memory",
              computed |-> FALSE, mem |-> mem, red |-> red]
        ELSE [out |-> outcome, tier |-> "func", computed |-> TRUE,
              mem |-> [k \in DOMAIN mem \cup {key} |->
                         IF k = key THEN [value |-> outcome, expiry |-> Expiry(t, l)]
                         ELSE mem[k]],
              red |-> red]

\* One call of the wrapper cache_result(ttl)(func) with the given key at time
\* t, where func does `outcome` (it returns a value or raises) if invoked: what
\* the call returns or raises, which tier served it, whether func was invoked,
\* and the two stores after it.  Both time.time() reads of one call return t.
cache_wrapper(mem, red, t, key, l, env, outcome) ==
    LET redis_client == get_redis_client(env)
        cached == IF redis_client # None THEN TryRedisGet(red, t, key, env)
                  ELSE [hit |-> FALSE]
    IN  IF cached.hit
        THEN [out |-> Returned(JsonLoads(cached.text)), tier |-> "redis",
              computed |-> FALSE, mem |-> mem, red |-> red]
        ELSE IF key \in DOMAIN mem /\ MemoryFresh(mem[key], t)
        THEN [out |-> Returned(mem[key].value), tier |-> "memory",
              computed |-> FALSE, mem |-> mem, red |-> red]
        ELSE IF outcome.kind = "raise"
        THEN [out |-> outcome, tier |-> "func",
              computed |-> TRUE, mem |-> mem, red |-> red]
        ELSE LET result == outcome.value IN
             [out |-> Returned(result), tier |-> "func", computed |-> TRUE,
              mem |-> [k \in DOMAIN mem \cup {key} |->
                         IF k = key THEN [value |-> result, expiry |-> Expiry(t, l)]
                         ELSE mem[k]],
              red |-> IF redis_client # None
                      THEN TryRedisSetex(red, t, key, l, JsonDumps(result), env)
                      ELSE red]

\* whether the Redis server failed the call somewhere it was asked
PrimaryFailed(env, r) ==
    \/ env.connect = "error"
    \/ env.get = "error"
    \/ (r.computed /\ r.out.kind = "return" /\ env.set = "error")

MaxTime == MaxTtlSpans * ttl

\* time that passes between calls: within the ttl, one second short of it,
\* exactly the ttl
Elapse == {ttl \div 2, ttl - 1, ttl}

CacheInit ==
    /\ PipeIdle /\ routes = <<>> /\ RetryIdle /\ AuxIdle
    /\ now = 0
    /\ memory_cache = EmptyDict
    /\ redis_store = EmptyDict
    /\ c_call = NoCall
    /\ computedAt = EmptyDict

\* a call of the wrapped lookup (its func may also raise, as any wrapped func may)
CacheCall ==
    \E project_id \in ProjectIds, env \in RedisEnvs, raises \in BOOLEAN :
        LET key == KnowledgeKey(project_id)
            outcome == IF raises THEN Raises("Exception", FALSE)
                       ELSE Returned(retrieve_knowledge_body(project_id))
            r == cache_wrapper(memory_cache, redis_store, now, key, ttl, env, outcome)
        IN  /\ memory_cache' = r.mem
            /\ redis_store' = r.red
            /\ c_call' = [called |-> TRUE, key |-> key, at |-> now, out |-> r.out, tier |-> r.tier,
                          computed |-> r.computed,
                          primaryFailed |-> PrimaryFailed(env, r),
                          funcRaises |-> raises,
                          memBefore |-> IF key \in DOMAIN memory_cache
                                        THEN memory_cache[key] ELSE None,
                          prior |-> IF key \in DOMAIN computedAt
                                    THEN computedAt[key] ELSE None]
            /\ computedAt' =
                 IF r.computed /\ r.out.kind = "return"
                 THEN [k \in DOMAIN computedAt \cup {key} |->
                         IF k = key THEN [at |-> now, value |-> r.out.value]
                         ELSE computedAt[k]]
                 ELSE computedAt
            /\ UNCHANGED now
            /\ UNCHANGED cacheFrame

\* time passes; nothing else happens to either store
Tick ==
    \E d \in Elapse :
        /\ now + d <= MaxTime
        /\ now' = now + d
        /\ UNCHANGED <<memory_cache, redis_store, c_call, computedAt>>
        /\ UNCHANGED cacheFrame

CacheNext == CacheCall \/ Tick

SpecCache == CacheInit /\ [][CacheNext]_vars

Called == c_call.called

\* C8: a call made less than ttl after a call with the same key that invoked
\* func does not invoke func again and returns the value func returned then,
\* whether Redis was up or failing at either call: the two calls invoke func
\* exactly once.
C8_CacheRoundTrip ==
    (Called /\ c_call.prior # None /\ c_call.at < c_call.prior.at + ttl)
        => (~c_call.computed /\ c_call.out = Returned(c_call.prior.value))

\* the second call comes ttl - 1 seconds after the first, with Redis failing
C8_Witness ==
    /\ Called /\ c_call.prior # None
    /\ c_call.at = c_call.prior.at + ttl - 1
    /\ c_call.primaryFailed /\ c_call.tier = "memory"
    /\ c_call.out = Returned(c_call.prior.value)

\* C9: a _memory_cache entry whose expiry instant has been reached is never
\* returned, and it is still in the store when the call comes (nothing evicts
\* it); unless Redis serves the call, func is invoked again, and when func
\* returns the entry is overwritten with expiry now + ttl.
C9_LazyExpiry ==
    (Called /\ c_call.memBefore # None /\ c_call.at >= c_call.memBefore.expiry)
        => /\ c_call.tier # "memory"
           /\ (c_call.tier # "redis" => c_call.computed)
           /\ (c_call.computed /\ c_call.out.kind = "return")
                => memory_cache[c_call.key] =
                       [value |-> c_call.out.value, expiry |-> c_call.at + ttl]

\* a call exactly at the old entry's expiry instant recomputes and rewrites it
C9_Witness ==
    /\ Called /\ c_call.memBefore # None
    /\ c_call.at = c_call.memBefore.expiry
    /\ c_call.computed /\ c_call.out.kind = "return"
    /\ memory_cache[c_call.key].expiry = c_call.at + ttl
    /\ now = c_call.at

\* C10: a call during which Redis fails on connect, get or set raises nothing
\* of Redis: it raises only what func raised, and otherwise returns the
\* _memory_cache value if that entry is unexpired, else the value func
\* computed in this call.
C10_PrimaryErrorsAreSoft ==
    (Called /\ c_call.primaryFailed)
        => /\ c_call.out.kind = "raise" => (c_call.computed /\ c_call.funcRaises)
           /\ c_call.out.kind = "return" =>
                IF c_call.memBefore # None /\ c_call.at < c_call.memBefore.expiry
                THEN ~c_call.computed /\ c_call.out.value = c_call.memBefore.value
                ELSE c_call.computed
                     /\ c_call.out.value = retrieve_knowledge_body(c_call.key[2][1])
           /\ (~c_call.funcRaises => c_call.out.kind = "return")

\* Redis fails the get and the stored entry is expired: the call returns the
\* fresh value
C10_Witness ==
    /\ Called /\ c_call.primaryFailed /\ c_call.tier = "func"
    /\ c_call.memBefore # None
    /\ c_call.out = Returned(retrieve_knowledge_body("PRJ-ALPHA"))

(***************************************************************************)
(* agents.py: cache_result called from several threads.  The wrapper takes *)
(* no lock, so a thread can be pre-empted between any two of its           *)
(* statements; here a call is three steps: the reads of both tiers, the    *)
(* call of func, the writes to both tiers.                                 *)
(***************************************************************************)
Threads == 1..MaxThreads

\* a thread that is not in the wrapper and has made no call
IdleThread ==
    [pc |-> "idle", project_id |-> "", env |-> None, observed |-> None,
     result |-> None, out |-> None, computed |-> FALSE, calls |-> 0]

\* Redis is up for the whole call or down for the whole call
ConcEnvs == {env \in RedisEnvs : env.get = env.connect /\ env.set = env.connect}

ConcInit ==
    /\ PipeIdle /\ routes = <<>> /\ RetryIdle
    /\ now = 0 /\ memory_cache = EmptyDict /\ redis_store = EmptyDict
    /\ c_call = NoCall /\ computedAt = EmptyDict
    /\ threads = [t \in Threads |-> IdleThread]
    /\ EvalIdle /\ PlanIdle /\ TrackIdle

\* lines 64-82: the key, the client, the Redis read and the _memory_cache
\* check; a hit returns, a miss leaves the thread about to call func
ConcEnter(t) ==
    /\ threads[t].pc \in {"idle", "returned"}
    /\ threads[t].calls < MaxConcCalls
    /\ \E project_id \in ProjectIds, env \in ConcEnvs :
        LET key == KnowledgeKey(project_id)
            redis_client == get_redis_client(env)
            cached == IF redis_client # None THEN TryRedisGet(redis_store, now, key, env)
                      ELSE [hit |-> FALSE]
            entry_seen == IF key \in DOMAIN memory_cache THEN memory_cache[key] ELSE None
            call == [IdleThread EXCEPT !.project_id = project_id, !.env = env,
                                       !.calls = threads[t].calls + 1]
        IN  threads' = [threads EXCEPT ![t] =
                IF cached.hit
                THEN [call EXCEPT !.pc = "returned",
                                  !.out = Returned(JsonLoads(cached.text))]
                ELSE IF entry_seen # None /\ MemoryFresh(entry_seen, now)
                THEN [call EXCEPT !.pc = "returned", !.out = Returned(entry_seen.value)]
                ELSE [call EXCEPT !.pc = "miss", !.observed = entry_seen]]
    /\ UNCHANGED <<now, memory_cache, redis_store>>
    /\ UNCHANGED concFrame

\* line 85: result = func(*args, **kwargs)
ConcCompute(t) ==
    /\ threads[t].pc = "miss"
    /\ threads' = [threads EXCEPT ![t] =
            [@ EXCEPT !.pc = "computed",
                      !.result = Returned(retrieve_knowledge_body(threads[t].project_id)),
                      !.computed = TRUE]]
    /\ UNCHANGED <<now, memory_cache, redis_store>>
    /\ UNCHANGED concFrame

\* lines 88-102: setex, _memory_cache[cache_key] = (result, time.time() + ttl),
\* return result
ConcStore(t) ==
    /\ threads[t].pc = "computed"
    /\ LET th == threads[t]
           key == KnowledgeKey(th.project_id)
           result == th.result.value
       IN  /\ redis_store' =
                IF get_redis_client(th.env) # None
                THEN TryRedisSetex(redis_store, now, key, ttl, JsonDumps(result), th.env)
                ELSE redis_store
           /\ memory_cache' =
                [k \in DOMAIN memory_cache \cup {key} |->
                    IF k = key THEN [value |-> result, expiry |-> Expiry(now, ttl)]
                    ELSE memory_cache[k]]
           /\ threads' = [threads EXCEPT ![t] =
                            [@ EXCEPT !.pc = "returned", !.out = Returned(result)]]
    /\ UNCHANGED now
    /\ UNCHANGED concFrame

\* time passes while no thread runs
ConcTick ==
    \E d \in Elapse :
        /\ now + d <= MaxTime
        /\ now' = now + d
        /\ UNCHANGED <<memory_cache, redis_store, threads>>
        /\ UNCHANGED concFrame

ConcNext ==
    \/ \E t \in Threads : ConcEnter(t)
    \/ \E t \in Threads : ConcCompute(t)
    \/ \E t \in Threads : ConcStore(t)
    \/ ConcTick

SpecConc == ConcInit /\ [][ConcNext]_vars

\* the thread's current or last call found neither tier holding a live value
\* for its key and went on to call func
ObservedMiss(t) == threads[t].pc \in {"miss", "computed", "returned"} /\
                   (threads[t].pc = "returned" => threads[t].computed)

\* C11: no two calls of the wrapper with the same key both observe the same
\* missing or expired _memory_cache entry as a miss and both go on to compute
\* and write it: the check-expiry-then-write sequence is mutually exclusive
\* per entry.
C11_NoDoubleMiss ==
    \A t, u \in Threads :
        (t # u /\ ObservedMiss(t) /\ ObservedMiss(u)
               /\ threads[t].project_id = threads[u].project_id)
            => threads[t].observed # threads[u].observed

\* two threads both found the entry of one key missing, both called func and
\* both wrote the entry
C11_Witness ==
    \E t, u \in Threads :
        /\ t # u
        /\ threads[t].pc = "returned" /\ threads[t].computed
        /\ threads[u].pc = "returned" /\ threads[u].computed
        /\ threads[t].project_id = threads[u].project_id
        /\ threads[t].observed = None /\ threads[u].observed = None

(***************************************************************************)
(* graph.py: the stage nodes                                               *)
(***************************************************************************)
\* dict.get(key, default)
Get(d, k, default) == IF k \in DOMAIN d THEN d[k] ELSE default

\* the OrchestrationState the nodes read
State ==
    [input_message |-> input_message, plan |-> plan,
     execution_results |-> execution_results,
     cross_cutting_context |-> cross_cutting_context,
     logs |-> logs, state_id |-> state_id]

\* str values are sequences of one-character strings
UpperCase == <<"A", "B", "C", "D", "E", "F", "G", "H", "I", "J", "K", "L", "M", "N", "O", "P", "Q", "R", "S", "T", "U", "V", "W", "X", "Y", "Z">>
LowerCase == <<"a", "b", "c", "d", "e", "f", "g", "h", "i", "j", "k", "l", "m", "n", "o", "p", "q", "r", "s", "t", "u", "v", "w", "x", "y", "z">>

\* str.lower(), character by character
LowerChar(c) ==
    IF \E i \in 1..Len(UpperCase) : UpperCase[i] = c
    THEN LowerCase[CHOOSE i \in 1..Len(UpperCase) : UpperCase[i] = c]
    ELSE c

lower(str) == [i \in 1..Len(str) |-> LowerChar(str[i])]

\* sub in str
In(sub, str) ==
    \E i \in 1..(Len(str) - Len(sub) + 1) : SubSeq(str, i, i + Len(sub) - 1) = sub

\* "Willing To Pay": the phrase in another case
Msg_MixedCase == <<"W", "i", "l", "l", "i", "n", "g", " ", "T", "o", " ", "P", "a", "y">>
\* "unwilling to pay": the phrase inside a longer word
Msg_InsideWord == <<"u", "n", "w", "i", "l", "l", "i", "n", "g", " ", "t", "o", " ", "p", "a", "y">>
\* "willing to": the phrase cut short
Msg_CutShort == <<"w", "i", "l", "l", "i", "n", "g", " ", "t", "o">>

\* request messages
Messages == {Msg_MixedCase, Msg_InsideWord, Msg_CutShort}

\* the phrase looked for in the message as it was sent
HasWillingToPay_CaseSensitive(message) == In(<<"w", "i", "l", "l", "i", "n", "g", " ", "t", "o", " ", "p", "a", "y">>, message)

\* "willing to pay" in state.input_message.message.lower()
HasWillingToPay(message) == In(<<"w", "i", "l", "l", "i", "n", "g", " ", "t", "o", " ", "p", "a", "y">>, lower(message))

InputMessages == [message : Messages, project_id : ProjectIds]

\* Task objects of a generation response: one that names a coordinator and
\* has no task_id, one that has a task_id, names an extraction operation as
\* its domain and has no priority.
TaskDatas ==
    {[domain |-> "L2_Communication", priority |-> 1],
     [task_id |-> "PLAN-2", domain |-> "action_item_extraction"]}

\* What json.loads(response.content) gives for valid JSON: a value that is no
\* object, an object without "tasks", or an object with a "tasks" array.
PlanDatas ==
    {[object |-> FALSE], [object |-> TRUE]}
        \cup {[object |-> TRUE, tasks |-> ts] : ts \in SeqsUpTo(TaskDatas, MaxTasks)}

\* What self.l1_llm.invoke does: it raises, or returns text that is no JSON,
\* or text that is the JSON of a PlanData.
L1Responses ==
    {Raises("ResourceExhausted", TRUE), Raises("Exception", FALSE)}
        \cup {[kind |-> "return", json |-> FALSE]}
        \cup {[kind |-> "return", json |-> TRUE, data |-> pd] : pd \in PlanDatas}

\* a fallback that lists the Knowledge task first
FallbackPlanData_KnowledgeFirst ==
    [object |-> TRUE,
     tasks |-> <<[task_id |-> "PLAN-001", domain |-> "Cross_Knowledge", priority |-> 1],
                 [task_id |-> "PLAN-002", domain |-> "L2_Tracking", priority |-> 1]>>]

\* the except json.JSONDecodeError branch
FallbackPlanData ==
    [object |-> TRUE,
     tasks |-> <<[task_id |-> "PLAN-001", domain |-> "L2_Tracking", priority |-> 1],
                 [task_id |-> "PLAN-002", domain |-> "Cross_Knowledge", priority |-> 1]>>]

\* a Planner that keeps the domain string of the response as it is
DomainOf_Verbatim(domain_str) == domain_str

\* domain_map.get(domain_str, TaskType.L2_TRACKING)
DomainOf(domain_str) == IF domain_str \in TaskType THEN domain_str ELSE "L2_Tracking"

\* a loop that gives a task without a domain the Communication domain
BuildTasks_DefaultCommunication(task_datas) ==
    [i \in 1..Len(task_datas) |->
        LET task_data == task_datas[i] IN
        Task(Get(task_data, "task_id", PlanId(i)),
             DomainOf(Get(task_data, "domain", "L2_Communication")),
             Get(task_data, "priority", 1),
             "IN_PROGRESS")]

\* the for loop over plan_data.get("tasks", []) and the tasks_list dicts
BuildTasks(task_datas) ==
    [i \in 1..Len(task_datas) |->
        LET task_data == task_datas[i] IN
        Task(Get(task_data, "task_id", PlanId(i)),
             DomainOf(Get(task_data, "domain", "L2_Tracking")),
             Get(task_data, "priority", 1),
             "IN_PROGRESS")]

LogLine(node, text, n) == [node |-> node, text |-> text, n |-> n]

\* _node_l1_orchestrator: the update it returns, or the exception it raises
\* a Planner that falls back without a word
l1_logger_errors_Silent(resp) == <<>>

\* logger.error(f"Failed to parse L1 response: ...") in the except branch
l1_logger_errors(resp) ==
    IF resp.kind = "return" /\ ~resp.json THEN <<"Failed to parse L1 response">> ELSE <<>>

node_l1_orchestrator(st, resp) ==
    IF resp.kind = "raise" THEN resp
    ELSE LET plan_data == IF resp.json THEN resp.data ELSE FallbackPlanData IN
         IF ~plan_data.object
         THEN Raises("AttributeError", FALSE)     \* plan_data.get on a non-dict
         ELSE LET tasks == BuildTasks(Get(plan_data, "tasks", <<>>)) IN
              Returned([plan |-> tasks,
                        logs |-> Append(st.logs,
                                   LogLine("L1", "Created plan with tasks", Len(tasks)))])

\* What one retry-wrapped extraction operation of L3Agents gives its caller:
\* a schema object holding k records, or an exception (the response was no
\* JSON, or the retries were exhausted).
L3Outcomes(name) ==
    {Returned([i \in 1..k |-> [id |-> 1000 + i - 1]]) : k \in 0..MaxItems}
        \cup {Raises("JSONDecodeError", FALSE), MaxRetriesExceeded(name)}

\* ExecutionResult(...): a pydantic object, not a dict
ExecutionResult(task_id, task_type, status, output) ==
    [py |-> "ExecutionResult", task_id |-> task_id, task_type |-> task_type,
     status |-> status, output |-> output]

\* a map that holds the new result only
WithResult_OnlyNew(results, k, result) == [x \in {k} |-> result]

\* execution_results = state.execution_results.copy(); execution_results[k] = result
WithResult(results, k, result) ==
    [x \in DOMAIN results \cup {k} |-> IF x = k THEN result ELSE results[x]]

\* _node_l2_tracking, given the knowledge the cached lookup returned and what
\* the two extraction operations do
node_l2_tracking(st, knowledge, action_items_result, risks_result) ==
    IF action_items_result.kind = "raise" THEN action_items_result
    ELSE IF risks_result.kind = "raise" THEN risks_result
    ELSE LET decisions == IF HasWillingToPay(st.input_message.message)
                          THEN <<[id |-> "DEC-001"]>> ELSE <<>>
             output == [domain |-> "L2_Tracking",
                        action_items |-> action_items_result.value,
                        risks |-> risks_result.value,
                        decisions |-> decisions, logs |-> <<>>]
             result == ExecutionResult("L2_TRACKING_001", "L2_Tracking", "SUCCESS", output)
         IN  Returned([execution_results |->
                          WithResult(st.execution_results, "L2_TRACKING_001", result),
                       logs |-> Append(st.logs,
                                  LogLine("L2_Tracking", "Completed: actions, risks",
                                          <<Len(action_items_result.value),
                                            Len(risks_result.value)>>))])

\* a Communication coordinator that returns its own line as the whole log
node_l2_communication_FreshLogs(st, knowledge, qna_result) ==
    IF qna_result.kind = "raise" THEN qna_result
    ELSE LET output == [domain |-> "L2_Communication",
                        qna_records |-> qna_result.value, logs |-> <<>>]
             result == ExecutionResult("L2_COMMUNICATION_001", "L2_Communication",
                                       "SUCCESS", output)
         IN  Returned([execution_results |->
                          WithResult(st.execution_results, "L2_COMMUNICATION_001", result),
                       logs |-> <<LogLine("L2_Communication", "Completed: Q&A records",
                                          Len(qna_result.value))>>])

\* _node_l2_communication
node_l2_communication(st, knowledge, qna_result) ==
    IF qna_result.kind = "raise" THEN qna_result
    ELSE LET output == [domain |-> "L2_Communication",
                        qna_records |-> qna_result.value, logs |-> <<>>]
             result == ExecutionResult("L2_COMMUNICATION_001", "L2_Communication",
                                       "SUCCESS", output)
         IN  Returned([execution_results |->
                          WithResult(st.execution_results, "L2_COMMUNICATION_001", result),
                       logs |-> Append(st.logs,
                                  LogLine("L2_Communication", "Completed: Q&A records",
                                          Len(qna_result.value)))])

\* _node_cross_knowledge
node_cross_knowledge(st, knowledge) ==
    LET output == [domain |-> "Cross_Knowledge", knowledge_context |-> knowledge,
                   cache_hit |-> FALSE, logs |-> <<>>]
        result == ExecutionResult("CROSS_KNOWLEDGE_001", "Cross_Knowledge", "SUCCESS", output)
    IN  Returned([execution_results |->
                     WithResult(st.execution_results, "CROSS_KNOWLEDGE_001", result),
                  cross_cutting_context |-> knowledge,
                  logs |-> Append(st.logs,
                             LogLine("Cross_Knowledge", "Retrieved context for",
                                     st.input_message.project_id))])

\* the keys of the map in the order a run inserts them, which is the order
\* execution_results.values() yields them in
KeyOrder == <<"L2_TRACKING_001", "L2_COMMUNICATION_001", "CROSS_KNOWLEDGE_001", "EXTRA_001">>

KeysOf(results) == SelectSeq(KeyOrder, LAMBDA k : k \in DOMAIN results)

\* sum(1 for r in execution_results.values() if r.get("status") == status)
CountStatus(results, status) ==
    Cardinality({k \in DOMAIN results :
                    "status" \in DOMAIN results[k] /\ results[k].status = status})

\* the for loop over execution_results.values(): output = result.get("output",
\* {}); the extraction key is looked for first, the generation key otherwise.
\* Confidences are counted in hundredths.
RECURSIVE ConfidenceScan(_, _, _, _)
ConfidenceScan(results, keys, total_confidence, count) ==
    IF keys = <<>> THEN [total_confidence |-> total_confidence, count |-> count]
    ELSE LET output == Get(results[Head(keys)], "output", EmptyDict) IN
         IF "extraction_confidence" \in DOMAIN output
         THEN ConfidenceScan(results, Tail(keys),
                             total_confidence + output.extraction_confidence, count + 1)
         ELSE IF "generation_confidence" \in DOMAIN output
         THEN ConfidenceScan(results, Tail(keys),
                             total_confidence + output.generation_confidence, count + 1)
         ELSE ConfidenceScan(results, Tail(keys), total_confidence, count)

\* a quotient of hundredths, kept as numerator and denominator
Ratio(num, den) == [num |-> num, den |-> den]

\* average_confidence < 0.75
BelowThreshold(avg, hundredths) == avg.num < hundredths * avg.den

\* the 0.75 of the comparison, in hundredths
ConfidenceThreshold == 75

\* CrossCuttingAgents.evaluate_output: r.get(...) is a dict method; a value of
\* the map that is an ExecutionResult object has no attribute get.
evaluate_output(results) ==
    IF \E k \in DOMAIN results : results[k].py # "dict"
    THEN Raises("AttributeError", FALSE)
    ELSE LET failed == CountStatus(results, "FAILED")
             scan == ConfidenceScan(results, KeysOf(results), 0, 0)
             average_confidence ==
                 IF scan.count > 0 THEN Ratio(scan.total_confidence, scan.count)
                 ELSE Ratio(0, 1)
         IN  Returned([total_tasks |-> Cardinality(DOMAIN results),
                       successful_tasks |-> CountStatus(results, "SUCCESS"),
                       failed_tasks |-> failed,
                       average_confidence |-> average_confidence,
                       overall_status |-> IF failed > 0 THEN "PARTIAL" ELSE "COMPLETED",
                       recommendations |->
                           (IF failed > 0 THEN <<"Review failed tasks for issues">>
                            ELSE <<>>)
                           \o (IF BelowThreshold(average_confidence, ConfidenceThreshold)
                               THEN <<"Consider re-running with higher model precision">>
                               ELSE <<>>)])

\* _node_evaluator
node_evaluator(st) ==
    LET evaluation == evaluate_output(st.execution_results) IN
    IF evaluation.kind = "raise" THEN evaluation
    ELSE Returned([logs |-> Append(st.logs,
                              LogLine("Evaluator", evaluation.value.overall_status,
                                      <<evaluation.value.successful_tasks,
                                        evaluation.value.total_tasks>>))])

(***************************************************************************)
(* agents.py: evaluate_output, called on its own with a results map        *)
(***************************************************************************)
\* confidence values, in hundredths: 0.6, 0.75, 0.9.  On every list of up to
\* four of these Python's float sum and quotient compare with 0.75 as the
\* exact values do.
Confidences == {60, 75, 90}

\* outputs of a result: without a confidence key, with one of the two, with both
EvalOutputs ==
    {[domain |-> "L2_Tracking"]}
        \cup {[extraction_confidence |-> c] : c \in Confidences}
        \cup {[generation_confidence |-> c] : c \in Confidences}
        \cup {[extraction_confidence |-> 90, generation_confidence |-> 60]}

Statuses == {"SUCCESS", "FAILED", "PARTIAL"}

\* values of a results map: plain dicts, with and without an "output" key,
\* and ExecutionResult objects as the coordinators build them
EvalResults ==
    [py : {"dict"}, status : Statuses, output : EvalOutputs]
        \cup [py : {"dict"}, status : Statuses]
        \cup {ExecutionResult("L2_TRACKING_001", "L2_Tracking", st,
                              [domain |-> "L2_Tracking", action_items |-> <<>>,
                               risks |-> <<>>, decisions |-> <<>>, logs |-> <<>>]) :
                st \in {"SUCCESS", "FAILED"}}

\* the first n result keys
EvalKeys(n) == {KeyOrder[i] : i \in 1..n}

\* the results maps of up to n entries
EvalMaps(n) == UNION {[S -> EvalResults] : S \in SUBSET EvalKeys(n)}

EvalInit ==
    /\ PipeIdle /\ routes = <<>> /\ RetryIdle /\ CacheIdle /\ ConcIdle /\ PlanIdle
    /\ TrackIdle
    /\ ev_results \in EvalMaps(MaxResults)
    /\ ev_out = NoCall

EvalCall ==
    /\ ~ev_out.called
    /\ ev_out' = [called |-> TRUE, out |-> evaluate_output(ev_results)]
    /\ UNCHANGED ev_results
    /\ UNCHANGED evalFrame

EvalNext == EvalCall

SpecEval == EvalInit /\ [][EvalNext]_vars

AllDicts(results) == \A k \in DOMAIN results : results[k].py = "dict"

HasRecommendation(evaluation, text) ==
    \E i \in 1..Len(evaluation.recommendations) : evaluation.recommendations[i] = text

\* the entries with the given status
WithStatus(results, status) == {k \in DOMAIN results : results[k].status = status}

CountsAndStatus(results, evaluation) ==
    /\ evaluation.total_tasks = Cardinality(DOMAIN results)
    /\ evaluation.successful_tasks = Cardinality(WithStatus(results, "SUCCESS"))
    /\ evaluation.failed_tasks = Cardinality(WithStatus(results, "FAILED"))
    /\ evaluation.overall_status \in {"PARTIAL", "COMPLETED"}
    /\ (evaluation.overall_status = "PARTIAL" <=> evaluation.failed_tasks > 0)
    /\ (HasRecommendation(evaluation, "Review failed tasks for issues")
            <=> evaluation.failed_tasks > 0)

\* C14: for every results map evaluate_output returns an evaluation whose
\* total_tasks is the number of entries, successful_tasks the number with
\* status SUCCESS, failed_tasks the number with status FAILED, whose
\* overall_status is PARTIAL exactly if failed_tasks > 0 and COMPLETED
\* otherwise, and which holds the "review failed tasks" recommendation exactly
\* if failed_tasks > 0.
C14_EvaluatorCountsAndStatus ==
    ev_out.called =>
        /\ ev_out.out.kind = "return"
        /\ CountsAndStatus(ev_results, ev_out.out.value)

\* the same on the maps all of whose values are plain dicts
CountsAndStatusOnDicts ==
    (ev_out.called /\ AllDicts(ev_results)) =>
        /\ ev_out.out.kind = "return"
        /\ CountsAndStatus(ev_results, ev_out.out.value)

\* the entries whose output holds a confidence key
Scored(results) ==
    {k \in DOMAIN results :
        /\ "output" \in DOMAIN results[k]
        /\ \/ "extraction_confidence" \in DOMAIN results[k].output
           \/ "generation_confidence" \in DOMAIN results[k].output}

ConfidenceOf(result) ==
    IF "extraction_confidence" \in DOMAIN result.output
    THEN result.output.extraction_confidence
    ELSE result.output.generation_confidence

RECURSIVE SumConfidence(_, _)
SumConfidence(results, S) ==
    IF S = {} THEN 0
    ELSE LET k == CHOOSE x \in S : TRUE IN
         ConfidenceOf(results[k]) + SumConfidence(results, S \ {k})

ConfidenceAndThreshold(results, evaluation) ==
    LET avg == evaluation.average_confidence
        S == Scored(results)
    IN  /\ avg.den > 0
        /\ IF S = {} THEN avg.num = 0
           ELSE avg.num * Cardinality(S) = SumConfidence(results, S) * avg.den
        /\ (HasRecommendation(evaluation, "Consider re-running with higher model precision")
                <=> avg.num * 100 < 75 * avg.den * 100)

\* C15: for every results map evaluate_output returns an evaluation whose
\* average_confidence is the mean of the confidence values of exactly the
\* results whose output holds an extraction or a generation confidence key (0
\* if there is none), and which holds the low-confidence recommendation
\* exactly if average_confidence is strictly below 0.75.
C15_ConfidenceThreshold ==
    ev_out.called =>
        /\ ev_out.out.kind = "return"
        /\ ConfidenceAndThreshold(ev_results, ev_out.out.value)

\* the same on the maps all of whose values are plain dicts
ConfidenceThresholdOnDicts ==
    (ev_out.called /\ AllDicts(ev_results)) =>
        /\ ev_out.out.kind = "return"
        /\ ConfidenceAndThreshold(ev_results, ev_out.out.value)

\* the map of the boundary case as plain dicts: one FAILED result without a
\* confidence, two SUCCESS results with confidences 0.9 and 0.6; the average
\* is exactly 0.75 and only the review recommendation is given
BoundaryOnDicts ==
    /\ ev_out.called /\ AllDicts(ev_results) /\ Cardinality(DOMAIN ev_results) = 3
    /\ Cardinality(WithStatus(ev_results, "FAILED")) = 1
    /\ Cardinality(Scored(ev_results)) = 2
    /\ Scored(ev_results) = WithStatus(ev_results, "SUCCESS")
    /\ SumConfidence(ev_results, Scored(ev_results)) = 150
    /\ ev_out.out.value.average_confidence = Ratio(150, 2)
    /\ ev_out.out.value.recommendations = <<"Review failed tasks for issues">>

\* the call on a map that holds an ExecutionResult object raised
C14_Witness ==
    /\ ev_out.called /\ ~AllDicts(ev_results)
    /\ Cardinality(WithStatus(ev_results, "FAILED")) = 1
    /\ ev_out.out = Raises("AttributeError", FALSE)

\* the call on a map of one SUCCESS ExecutionResult object, whose output holds
\* no confidence key, raised
C15_Witness ==
    /\ ev_out.called /\ Cardinality(DOMAIN ev_results) = 1
    /\ \A k \in DOMAIN ev_results :
          ev_results[k].py = "ExecutionResult" /\ ev_results[k].status = "SUCCESS"
    /\ ev_out.out.kind = "raise"

(***************************************************************************)
(* graph.py: _build_graph, invoke, invoke_simple                           *)
(***************************************************************************)
Nodes == {"L1_Orchestrator", "L2_Tracking", "L2_Communication", "Cross_Knowledge", "Evaluator"}

\* the add_edge calls of _build_graph
GraphEdges ==
    {<<"START", "L1_Orchestrator">>, <<"L1_Orchestrator", "L2_Tracking">>,
     <<"L2_Tracking", "L2_Communication">>, <<"L2_Communication", "Cross_Knowledge">>,
     <<"Cross_Knowledge", "Evaluator">>, <<"Evaluator", "END">>}

\* a graph with conditional edges: the router after the Planner, every
\* coordinator followed by the Evaluator
GraphNext_Conditional(n, st) ==
    IF n = "START" THEN "L1_Orchestrator"
    ELSE IF n = "L1_Orchestrator" THEN router_l1_to_l2(st.plan)
    ELSE IF n = "Evaluator" THEN "END"
    ELSE "Evaluator"

\* the node the compiled graph runs after n: the target of n's one edge,
\* whatever the state holds
GraphNext(n, st) == CHOOSE m \in Nodes \cup {"END"} : <<n, m>> \in GraphEdges

\* the order of the node calls in the body of invoke_simple
SimpleSequence ==
    <<"L1_Orchestrator", "L2_Tracking", "L2_Communication", "Cross_Knowledge", "Evaluator">>

\* a body that calls the Communication coordinator before the Tracking one
SimpleNext_CommunicationFirst(n, st) ==
    CASE n = "START" -> "L1_Orchestrator"
      [] n = "L1_Orchestrator" -> "L2_Communication"
      [] n = "L2_Communication" -> "L2_Tracking"
      [] n = "L2_Tracking" -> "Cross_Knowledge"
      [] n = "Cross_Knowledge" -> "Evaluator"
      [] n = "Evaluator" -> "END"

\* the call that follows the call of n in invoke_simple
SimpleNext(n, st) ==
    IF n = "START" THEN SimpleSequence[1]
    ELSE LET i == CHOOSE j \in 1..Len(SimpleSequence) : SimpleSequence[j] = n IN
         IF i = Len(SimpleSequence) THEN "END" ELSE SimpleSequence[i + 1]

NextNode(e, n, st) == IF e = "invoke" THEN GraphNext(n, st) ELSE SimpleNext(n, st)

\* a merge that builds its result as a new state object, with the default
\* state_id
MergeGraph_NewStateId(st, update) ==
    [f \in DOMAIN st |-> IF f \in DOMAIN update THEN update[f]
                         ELSE IF f = "state_id" THEN 0 ELSE st[f]]

\* The compiled graph writes every key of a node's update over the state's
\* (each field is a last-value channel); keys the update lacks stay.
MergeGraph(st, update) ==
    [f \in DOMAIN st |-> IF f \in DOMAIN update THEN update[f] ELSE st[f]]

\* dict.update
DictUpdate(d, u) == [k \in DOMAIN d \cup DOMAIN u |-> IF k \in DOMAIN u THEN u[k] ELSE d[k]]

\* a body that repeats the Planner's plan assignment after every node call
MergeSimple_PlanFromEveryUpdate(n, st, update) ==
    [st EXCEPT
        !.plan = Get(update, "plan", <<>>),
        !.execution_results =
            IF n \in {"L2_Tracking", "L2_Communication", "Cross_Knowledge"}
            THEN DictUpdate(@, Get(update, "execution_results", EmptyDict)) ELSE @,
        !.cross_cutting_context =
            IF n = "Cross_Knowledge"
            THEN DictUpdate(@, Get(update, "cross_cutting_context", EmptyDict)) ELSE @,
        !.logs = Get(update, "logs", @)]

\* the assignments that follow each node call in invoke_simple
MergeSimple(n, st, update) ==
    [st EXCEPT
        !.plan = IF n = "L1_Orchestrator" THEN Get(update, "plan", <<>>) ELSE @,
        !.execution_results =
            IF n \in {"L2_Tracking", "L2_Communication", "Cross_Knowledge"}
            THEN DictUpdate(@, Get(update, "execution_results", EmptyDict)) ELSE @,
        !.cross_cutting_context =
            IF n = "Cross_Knowledge"
            THEN DictUpdate(@, Get(update, "cross_cutting_context", EmptyDict)) ELSE @,
        !.logs = Get(update, "logs", @)]

\* a direct-call body that forgets to take over the knowledge context
Merge_SimpleDropsContext(e, n, st, update) ==
    IF e = "invoke" THEN MergeGraph(st, update)
    ELSE [MergeSimple(n, st, update) EXCEPT !.cross_cutting_context = st.cross_cutting_context]

Merge(e, n, st, update) ==
    IF e = "invoke" THEN MergeGraph(st, update) ELSE MergeSimple(n, st, update)

PcOf(n) == IF n = "END" THEN "done" ELSE n

\* the second argument of compiled_graph.invoke
recursion_limit == 25

\* a step limit both entry points would run under
Ceiling_Low(e) == [limit |-> 3]

\* the step limit an entry point runs its nodes under: invoke hands
\* {"recursion_limit": 25} to the compiled graph, invoke_simple calls the
\* five nodes one after the other and counts nothing
Ceiling(e) == IF e = "invoke" THEN [limit |-> recursion_limit] ELSE None

\* the compiled graph has run `steps` nodes, `next` is due, and the limit
\* allows no further step: it raises GraphRecursionError
OutOfSteps(e, steps, next) ==
    Ceiling(e) # None /\ next # "END" /\ steps >= Ceiling(e).limit

Init ==
    /\ PipeIdle /\ routes = <<>> /\ RetryIdle /\ CacheIdle /\ AuxIdle

\* entry points that start a run on the results map and the log list the
\* run before left behind
StartRun_SharedState ==
    /\ pc \in {"idle", "done", "aborted"}
    /\ runs < MaxRuns
    /\ \E e \in {"invoke", "invoke_simple"}, m \in InputMessages :
        /\ entry' = e
        /\ input_message' = m
        /\ pc' = PcOf(NextNode(e, "START", State))
    /\ runs' = runs + 1
    /\ state_id' = runs + 1
    /\ plan' = <<>>
    /\ cross_cutting_context' = EmptyDict
    /\ trace' = <<>>
    /\ error' = NoError
    /\ given' = EmptyDict
    /\ logger_errors' = <<>>
    /\ response' = NoResponse
    /\ UNCHANGED <<execution_results, logs, cacheVars, pipeFrame>>

\* invoke(input_message) or invoke_simple(input_message) is called: a new
\* OrchestrationState with a new state_id, and the first node is due
StartRun ==
    /\ pc \in {"idle", "done", "aborted"}
    /\ runs < MaxRuns
    /\ \E e \in {"invoke", "invoke_simple"}, m \in InputMessages :
        /\ entry' = e
        /\ input_message' = m
        /\ pc' = PcOf(NextNode(e, "START", State))
    /\ runs' = runs + 1
    /\ state_id' = runs + 1
    /\ plan' = <<>>
    /\ execution_results' = EmptyDict
    /\ cross_cutting_context' = EmptyDict
    /\ logs' = <<>>
    /\ trace' = <<>>
    /\ error' = NoError
    /\ given' = EmptyDict
    /\ logger_errors' = <<>>
    /\ response' = NoResponse
    /\ UNCHANGED <<cacheVars, pipeFrame>>

\* a handler that answers 200 whatever happened
process_message_AlwaysOk(outcome) == [status_code |-> 200]

\* main.py, process_message and its two siblings: try: result_state =
\* graph.invoke(...) or graph.invoke_simple(...); return the formatted state;
\* except Exception as e: logger.error(...); raise HTTPException(500, ...)
process_message(outcome) ==
    IF outcome.kind = "raise"
    THEN [status_code |-> 500, detail |-> "Error processing message", e |-> outcome]
    ELSE [status_code |-> 200]

\* The node n was invoked with what the generation client `gave` it, logged
\* `errors` and returned `result` or raised it: an update is merged and the
\* next node is due; an exception leaves invoke / invoke_simple and reaches
\* the handler's except clause. Under invoke the compiled graph counts the
\* node as one step and raises once the steps are used up with nodes due.
AfterNode(n, gave, errors, result) ==
    /\ trace' = Append(trace, n)
    /\ given' = DictUpdate(given, gave)
    /\ IF result.kind = "raise"
       THEN /\ pc' = "aborted"
            /\ error' = result
            /\ response' = process_message(result)
            /\ logger_errors' = Append(logger_errors \o errors, "Error processing message")
            /\ UNCHANGED <<plan, execution_results, cross_cutting_context, logs,
                           input_message, state_id>>
       ELSE LET merged == Merge(entry, n, State, result.value)
                next == NextNode(entry, n, merged)
                out == IF OutOfSteps(entry, Len(trace) + 1, next)
                       THEN Raises("GraphRecursionError", FALSE)
                       ELSE Returned(merged) IN
            /\ plan' = merged.plan
            /\ execution_results' = merged.execution_results
            /\ cross_cutting_context' = merged.cross_cutting_context
            /\ logs' = merged.logs
            /\ input_message' = merged.input_message
            /\ state_id' = merged.state_id
            /\ pc' = IF out.kind = "raise" THEN "aborted" ELSE PcOf(next)
            /\ error' = IF out.kind = "raise" THEN out ELSE error
            /\ response' = IF out.kind = "raise" \/ next = "END"
                           THEN process_message(out) ELSE response
            /\ logger_errors' =
                  IF out.kind = "raise"
                  THEN Append(logger_errors \o errors, "Error processing message")
                  ELSE logger_errors \o errors
    /\ UNCHANGED <<entry, runs, pipeFrame>>

\* CrossCuttingAgents.retrieve_knowledge(project_id) through its cache wrapper,
\* with the Redis server behaving as env
CachedKnowledge(env) ==
    cache_wrapper(memory_cache, redis_store, now,
                  KnowledgeKey(input_message.project_id), ttl, env,
                  Returned(retrieve_knowledge_body(input_message.project_id)))

CacheAfter(r) ==
    /\ memory_cache' = r.mem
    /\ redis_store' = r.red
    /\ UNCHANGED <<now, c_call, computedAt>>

Step_L1_Orchestrator ==
    /\ pc = "L1_Orchestrator"
    /\ \E resp \in L1Responses :
        AfterNode("L1_Orchestrator", [l1 |-> resp], l1_logger_errors(resp),
                  node_l1_orchestrator(State, resp))
    /\ UNCHANGED cacheVars

Step_L2_Tracking ==
    /\ pc = "L2_Tracking"
    /\ \E env \in RedisEnvs, ai \in L3Outcomes("extract_action_items"),
          rk \in L3Outcomes("extract_risks") :
        LET k == CachedKnowledge(env) IN
        /\ AfterNode("L2_Tracking",
                     IF ai.kind = "raise" THEN [action_items |-> ai]
                     ELSE [action_items |-> ai, risks |-> rk],
                     <<>>, node_l2_tracking(State, k.out.value, ai, rk))
        /\ CacheAfter(k)

Step_L2_Communication ==
    /\ pc = "L2_Communication"
    /\ \E env \in RedisEnvs, qna \in L3Outcomes("generate_qna") :
        LET k == CachedKnowledge(env) IN
        /\ AfterNode("L2_Communication", [qna |-> qna], <<>>,
                     node_l2_communication(State, k.out.value, qna))
        /\ CacheAfter(k)

Step_Cross_Knowledge ==
    /\ pc = "Cross_Knowledge"
    /\ \E env \in RedisEnvs :
        LET k == CachedKnowledge(env) IN
        /\ AfterNode("Cross_Knowledge", EmptyDict, <<>>,
                     node_cross_knowledge(State, k.out.value))
        /\ CacheAfter(k)

Step_Evaluator ==
    /\ pc = "Evaluator"
    /\ AfterNode("Evaluator", EmptyDict, <<>>, node_evaluator(State))
    /\ UNCHANGED cacheVars

Next ==
    \/ StartRun
    \/ Step_L1_Orchestrator
    \/ Step_L2_Tracking
    \/ Step_L2_Communication
    \/ Step_Cross_Knowledge
    \/ Step_Evaluator

Spec == Init /\ [][Next]_vars

(***************************************************************************)
(* _node_l1_orchestrator on its own, over the task objects a generation    *)
(* response can hold                                                       *)
(***************************************************************************)
\* a JSON object that has the key with one of the values, or lacks it
OptionalField(key, values) == {EmptyDict} \cup {[k \in {key} |-> v] : v \in values}

\* Task objects of a generation response: task_id, domain and priority each
\* present or absent; the domain names a coordinator or an extraction
\* operation.
PlannerTaskDatas ==
    {DictUpdate(DictUpdate(a, b), c) :
        a \in OptionalField("task_id", {"PLAN-1", "PLAN-2"}),
        b \in OptionalField("domain", TaskType \cup {"action_item_extraction"}),
        c \in OptionalField("priority", 1..2)}

\* What self.l1_llm.invoke does, with up to n task objects in the response
PlannerResponses(n) ==
    {Raises("ResourceExhausted", TRUE), Raises("Exception", FALSE)}
        \cup {[kind |-> "return", json |-> FALSE]}
        \cup {[kind |-> "return", json |-> TRUE, data |-> pd] :
                pd \in {[object |-> FALSE], [object |-> TRUE]}
                    \cup {[object |-> TRUE, tasks |-> ts] :
                            ts \in SeqsUpTo(PlannerTaskDatas, n)}}

PlannerInit ==
    /\ PipeIdle /\ routes = <<>> /\ RetryIdle /\ CacheIdle /\ ConcIdle /\ EvalIdle
    /\ TrackIdle
    /\ pl_response \in PlannerResponses(MaxTasks)
    /\ pl_out = NoCall

\* the node is called on a new state
PlannerCall ==
    /\ ~pl_out.called
    /\ pl_out' = [called |-> TRUE, out |-> node_l1_orchestrator(State, pl_response),
                  errors |-> l1_logger_errors(pl_response)]
    /\ UNCHANGED pl_response
    /\ UNCHANGED planFrame

PlannerNext == PlannerCall

SpecPlanner == PlannerInit /\ [][PlannerNext]_vars

(***************************************************************************)
(* _node_l2_tracking, external call by external call: the cached knowledge *)
(* lookup, then the two retry_on_429-wrapped extraction operations         *)
(***************************************************************************)
\* a body that extracts the risks before the action items
TrackingCalls_RisksFirst == <<"retrieve_knowledge", "extract_risks", "extract_action_items">>

\* the external calls in the body of _node_l2_tracking, in order
TrackingCalls == <<"retrieve_knowledge", "extract_action_items", "extract_risks">>

\* the wrapped operations among them
WrappedOps == {"extract_action_items", "extract_risks"}

\* What one invocation of an extraction operation's body does: it returns
\* its schema object, or the generation call fails with a rate-limit error
\* (by type, or by "429" in the text), or json.loads fails.
OpOutcomes ==
    {FuncReturns, Raises("ResourceExhausted", FALSE), Raises("Exception", TRUE),
     Raises("JSONDecodeError", FALSE)}

\* how often c stands in the call log
Count(log, c) == Cardinality({i \in 1..Len(log) : log[i] = c})

\* the call that follows c in the body, "returned" after the last
CallAfter(c) ==
    LET i == CHOOSE j \in 1..Len(TrackingCalls) : TrackingCalls[j] = c IN
    IF i = Len(TrackingCalls) THEN "returned" ELSE TrackingCalls[i + 1]

TrackingInit ==
    /\ PipeIdle /\ routes = <<>> /\ RetryIdle /\ CacheIdle /\ ConcIdle /\ EvalIdle
    /\ PlanIdle
    /\ tk_pc = TrackingCalls[1]
    /\ tk_script \in [WrappedOps -> [1..DefaultMaxRetries -> OpOutcomes]]
    /\ tk_log = <<>>
    /\ tk_retries = 0 /\ tk_delay = initial_delay
    /\ tk_slept = [op \in WrappedOps |-> <<>>]
    /\ tk_out = NoCall

\* CrossCuttingAgents.retrieve_knowledge(project_id): one call of the cached
\* lookup; the call after it is due, its wrapper starting with retries = 0
\* and delay = initial_delay
TrackKnowledge ==
    /\ tk_pc = "retrieve_knowledge"
    /\ tk_log' = Append(tk_log, tk_pc)
    /\ tk_pc' = CallAfter(tk_pc)
    /\ tk_retries' = 0 /\ tk_delay' = initial_delay
    /\ UNCHANGED <<tk_script, tk_slept, tk_out>>
    /\ UNCHANGED trackFrame

\* one iteration of the while loop of the wrapper of the operation that is
\* due: its body is invoked; a result ends the wrapped call and the next call
\* of the node is due, a retryable failure is slept on and counted, any other
\* failure leaves the node
TrackAttempt ==
    /\ tk_pc \in WrappedOps
    /\ LoopContinues(tk_retries, DefaultMaxRetries)
    /\ LET o == tk_script[tk_pc][Count(tk_log, tk_pc) + 1] IN
        /\ tk_log' = Append(tk_log, tk_pc)
        /\ IF o.kind = "return"
           THEN /\ tk_pc' = CallAfter(tk_pc)
                /\ tk_retries' = 0 /\ tk_delay' = initial_delay
                /\ tk_out' = IF CallAfter(tk_pc) = "returned"
                             THEN [called |-> TRUE, out |-> o] ELSE tk_out
                /\ UNCHANGED tk_slept
           ELSE IF IsRetryable(o)
           THEN /\ tk_slept' = IF Sleeps(tk_retries, DefaultMaxRetries)
                                THEN [tk_slept EXCEPT ![tk_pc] = Append(@, tk_delay)]
                                ELSE tk_slept
                /\ tk_retries' = tk_retries + 1
                /\ tk_delay' = NextDelay(tk_delay)
                /\ UNCHANGED <<tk_pc, tk_out>>
           ELSE /\ tk_pc' = "raised"
                /\ tk_out' = [called |-> TRUE, out |-> o]
                /\ UNCHANGED <<tk_retries, tk_delay, tk_slept>>
    /\ UNCHANGED tk_script
    /\ UNCHANGED trackFrame

\* the loop condition of the wrapper fails: the retries-exhausted exception
\* leaves the node
TrackGiveUp ==
    /\ tk_pc \in WrappedOps
    /\ ~LoopContinues(tk_retries, DefaultMaxRetries)
    /\ tk_out' = [called |-> TRUE, out |-> MaxRetriesExceeded(tk_pc)]
    /\ tk_pc' = "raised"
    /\ UNCHANGED <<tk_script, tk_log, tk_retries, tk_delay, tk_slept>>
    /\ UNCHANGED trackFrame

TrackingNext == TrackKnowledge \/ TrackAttempt \/ TrackGiveUp

SpecTracking == TrackingInit /\ [][TrackingNext]_vars

\* the node returned a plan for a response that was the JSON of an object
PlannerAccepted ==
    /\ pl_out.called /\ pl_out.out.kind = "return"
    /\ pl_response.kind = "return" /\ pl_response.json

\* the task objects of the response and the plan built from them
ResponseTasks == Get(pl_response.data, "tasks", <<>>)
PlannedTasks == pl_out.out.value.plan

\* the fixed order of the linear variant
LinearOrder ==
    <<"L1_Orchestrator", "L2_Tracking", "L2_Communication", "Cross_Knowledge", "Evaluator">>

DomainNodes == {"L2_Tracking", "L2_Communication", "Cross_Knowledge"}

\* C1: a run of the fixed-order entry point invoke_simple invokes the nodes in
\* the order Planner, Tracking, Communication, Knowledge, Evaluator, each at
\* most once and none before its predecessors; a run that returns, and any
\* run that has reached its last stage, has invoked exactly these five, each
\* once, whatever plan the Planner produced.
C1_LinearOrder ==
    entry = "invoke_simple"
        => /\ IsPrefix(trace, LinearOrder)
           /\ (pc \in Nodes => Append(trace, pc) = SubSeq(LinearOrder, 1, Len(trace) + 1))
           /\ (pc = "done" => trace = LinearOrder)

\* all five nodes were invoked, in order, in a run whose Planner produced the
\* empty plan
C1_Witness ==
    /\ entry = "invoke_simple"
    /\ trace = LinearOrder
    /\ plan = <<>>

\* C2 as claimed: in a run of invoke the node invoked after the Planner is the
\* one the router selects for the plan, a coordinator or the Knowledge node is
\* followed by the Evaluator, and at most one of these three is invoked.
C2_InvokeRoutesConditionally ==
    entry = "invoke"
        => /\ (Len(trace) >= 2 => trace[2] = router_l1_to_l2(plan))
           /\ \A i \in 1..(Len(trace) - 1) :
                 trace[i] \in DomainNodes => trace[i + 1] = "Evaluator"
           /\ Cardinality({i \in 1..Len(trace) : trace[i] \in DomainNodes}) <= 1

\* C2 (amended): invoke runs the compiled graph, whose edges are the fixed
\* linear order: the router is not consulted, the Tracking coordinator follows
\* the Planner whatever the plan, and a run that reaches the Evaluator has
\* invoked all three of Tracking, Communication and Knowledge before it.
C2_InvokeIsLinear ==
    entry = "invoke"
        => /\ IsPrefix(trace, LinearOrder)
           /\ (pc \in Nodes => Append(trace, pc) = SubSeq(LinearOrder, 1, Len(trace) + 1))
           /\ (Len(trace) >= 2 => trace[2] = "L2_Tracking")
           /\ (pc \in {"Evaluator", "done"} \/ (trace # <<>> /\ Last(trace) = "Evaluator"))
                 => DomainNodes \subseteq {trace[i] : i \in 1..Len(trace)}

\* a run of invoke has invoked all five nodes although the router would have
\* sent its plan to the Communication coordinator alone
C2_Witness ==
    /\ entry = "invoke"
    /\ trace = LinearOrder
    /\ plan # <<>>
    /\ router_l1_to_l2(plan) = "L2_Communication"

\* the Planner of the current run was given a response that is no JSON
NotJson == "l1" \in DOMAIN given /\ given.l1.kind = "return" /\ ~given.l1.json

\* C12: once the Planner has been given a generation response that is not
\* valid JSON, the state's plan is exactly two tasks, a Tracking task and then
\* a Knowledge task, both of priority 1, and the run continues: the Planner
\* raised nothing and the Tracking coordinator is the next node invoked.
C12_PlannerFallbackPlan ==
    NotJson =>
        /\ Len(plan) = 2
        /\ plan[1].domain = "L2_Tracking" /\ plan[1].priority = 1
        /\ plan[2].domain = "Cross_Knowledge" /\ plan[2].priority = 1
        /\ trace[1] = "L1_Orchestrator"
        /\ (Len(trace) = 1 => (pc = "L2_Tracking" /\ error = NoError))
        /\ (Len(trace) >= 2 => trace[2] = "L2_Tracking")

\* the Tracking coordinator has run on the fallback plan
C12_Witness ==
    /\ NotJson
    /\ Len(plan) = 2
    /\ trace = <<"L1_Orchestrator", "L2_Tracking">>
    /\ "L2_TRACKING_001" \in DOMAIN execution_results

\* the texts in graph.py that speak of the fallback: the logger.error message
\* and the "reasoning" of the default plan
FallbackTexts == {"Failed to parse L1 response", "Default plan due to parse error"}

MentionsFallback(line) == line.text \in FallbackTexts

\* C13 as claimed: once the Planner has been given a response that is not
\* valid JSON, state.logs holds an entry that mentions the fallback.
C13_FallbackInStateLogs ==
    NotJson => \E i \in 1..Len(logs) : MentionsFallback(logs[i])

\* C13 (amended): the Planner reports the parse failure through the module
\* logger at error level, as the first error record of the run; state.logs
\* gains only the Planner's usual entry, "[L1] Created plan with 2 tasks",
\* and no entry of state.logs ever mentions the fallback.
C13_FallbackInLoggerOnly ==
    NotJson =>
        /\ logger_errors # <<>> /\ logger_errors[1] = "Failed to parse L1 response"
        /\ logs # <<>> /\ logs[1] = LogLine("L1", "Created plan with tasks", 2)
        /\ \A i \in 1..Len(logs) : ~MentionsFallback(logs[i])

\* the Planner has just fallen back
C13_Witness ==
    /\ NotJson
    /\ trace = <<"L1_Orchestrator">>
    /\ Len(logs) = 1
    /\ logger_errors = <<"Failed to parse L1 response">>

\* C16: the Evaluator node raises nothing, whatever results map the run holds
\* when it is invoked: a run whose Evaluator was invoked has ended without an
\* error, the Evaluator's entry is the last of state.logs and the run's caller
\* got the final state.
C16_EvaluatorNeverRaises ==
    (trace # <<>> /\ Last(trace) = "Evaluator") =>
        /\ error = NoError
        /\ pc = "done"
        /\ logs # <<>> /\ Last(logs).node = "Evaluator"

\* the Evaluator of a run of invoke_simple was invoked on the map the three
\* stages before it built, and raised
C16_Witness ==
    /\ entry = "invoke_simple"
    /\ trace = LinearOrder
    /\ DOMAIN execution_results =
           {"L2_TRACKING_001", "L2_COMMUNICATION_001", "CROSS_KNOWLEDGE_001"}
    /\ error = Raises("AttributeError", FALSE)
    /\ pc = "aborted"

\* the Evaluator is never reached with an empty results map, and no run ends
\* in any way but an exception
EvaluatorMapNeverEmpty == pc = "Evaluator" => execution_results # EmptyDict

NoRunReturns == pc # "done"

\* the output of the Tracking coordinator's result, once it is in the map
TrackingOutput == execution_results["L2_TRACKING_001"].output

\* C17: the output of the Tracking coordinator holds exactly one Decision,
\* DEC-001, if the message holds the phrase "willing to pay" (in any case,
\* also inside a longer word) and no Decision otherwise, whatever records
\* the two extraction operations returned.
C17_DecisionHeuristic ==
    "L2_TRACKING_001" \in DOMAIN execution_results =>
        TrackingOutput.decisions =
            IF input_message.message \in {Msg_MixedCase, Msg_InsideWord}
            THEN <<[id |-> "DEC-001"]>> ELSE <<>>

\* the message holds the phrase in mixed case and the extraction operations
\* returned records of their own: one Decision
C17_Witness ==
    /\ "L2_TRACKING_001" \in DOMAIN execution_results
    /\ input_message.message = Msg_MixedCase
    /\ Len(TrackingOutput.action_items) = 1 /\ Len(TrackingOutput.risks) = 0
    /\ Len(TrackingOutput.decisions) = 1

\* the extraction operations each domain stage calls, and the stage's result key
StageCalls ==
    [L2_Tracking |-> {"action_items", "risks"}, L2_Communication |-> {"qna"}]

StageKey == [L2_Tracking |-> "L2_TRACKING_001", L2_Communication |-> "L2_COMMUNICATION_001"]

\* an extraction operation the stage called in the current run raised
StageFailed(stage) ==
    \E c \in StageCalls[stage] : c \in DOMAIN given /\ given[c].kind = "raise"

\* C18: when the task execution of a domain stage fails, the stage's result
\* is in the results map with status FAILED, the run is not aborted and the
\* remaining stages are invoked.
C18_FailureRecordedRunContinues ==
    \A stage \in DOMAIN StageCalls :
        StageFailed(stage) =>
            /\ StageKey[stage] \in DOMAIN execution_results
            /\ execution_results[StageKey[stage]].status = "FAILED"
            /\ pc # "aborted"

\* extract_risks raised in the Tracking coordinator: nothing was recorded,
\* the run ended there and the caller got the exception
C18_Witness ==
    /\ StageFailed("L2_Tracking")
    /\ "risks" \in DOMAIN given /\ given.risks.kind = "raise"
    /\ trace = <<"L1_Orchestrator", "L2_Tracking">>
    /\ execution_results = EmptyDict
    /\ pc = "aborted" /\ error = given.risks

\* no results map of any run ever holds a result whose status is FAILED
NoFailedResultEver ==
    \A k \in DOMAIN execution_results : execution_results[k].status # "FAILED"

\* the generation response of an extraction operation the stage called was
\* not valid JSON
StageMalformed(stage) ==
    \E c \in StageCalls[stage] :
        c \in DOMAIN given /\ given[c] = Raises("JSONDecodeError", FALSE)

\* C19: when the generation response of an extraction operation is not valid
\* JSON, the coordinator recovers: its result is in the results map, the run
\* is not aborted and its caller sees no failure.
C19_MalformedRecoveredLocally ==
    \A stage \in DOMAIN StageCalls :
        StageMalformed(stage) =>
            /\ StageKey[stage] \in DOMAIN execution_results
            /\ pc # "aborted" /\ error = NoError
            /\ response.status_code # 500

\* generate_qna was given a response that is no JSON: the Communication
\* coordinator raised JSONDecodeError, the run ended and the handler
\* answered 500
C19_Witness ==
    /\ StageMalformed("L2_Communication")
    /\ trace = <<"L1_Orchestrator", "L2_Tracking", "L2_Communication">>
    /\ "L2_COMMUNICATION_001" \notin DOMAIN execution_results
    /\ pc = "aborted" /\ error = Raises("JSONDecodeError", FALSE)
    /\ response.status_code = 500

\* a call of the generation client, or of a retry-wrapped operation, of the
\* current run raised
SomeCallRaised == \E c \in DOMAIN given : given[c].kind = "raise"

\* C20: an exception raised inside a stage, a retries-exhausted one included,
\* aborts the run: the run ends with that exception at the stage that raised
\* it, the caller gets no final state, the HTTP handler answers 500 with the
\* exception, and no further stage of that run is ever invoked (the only step
\* after it is the start of another run).
C20_OrchestrationAborted ==
    /\ [](SomeCallRaised =>
            /\ pc = "aborted"
            /\ \E c \in DOMAIN given : given[c].kind = "raise" /\ error = given[c])
    /\ [](error # NoError =>
            /\ pc = "aborted"
            /\ trace # <<>> /\ IsPrefix(trace, LinearOrder)
            /\ response.status_code = 500 /\ response.e = error)
    /\ [][pc = "aborted" => (runs' = runs + 1 /\ trace' = <<>> /\ pc' = "L1_Orchestrator")]_vars

\* the retries of extract_action_items were exhausted in a run of invoke:
\* the run ended in the Tracking coordinator and the handler answered 500
C20_Witness ==
    /\ entry = "invoke"
    /\ "action_items" \in DOMAIN given
    /\ given.action_items = MaxRetriesExceeded("extract_action_items")
    /\ trace = <<"L1_Orchestrator", "L2_Tracking">>
    /\ pc = "aborted" /\ error = given.action_items
    /\ response.status_code = 500

\* calls of self.l1_llm.invoke the Planner of the current run has made: the
\* one call of graph.py line 106, which no retry_on_429 wraps
PlannerGenerationCalls == IF "l1" \in DOMAIN given THEN 1 ELSE 0

\* the run was ended by an exception that retry_on_429 classifies as a rate
\* limit failure
EndedByRateLimit == error # NoError /\ IsRetryable(error)

\* C21: a rate-limit failure of the Planner's generation call ends a run only
\* after max_retries failing calls of that operation.
C21_PlannerCallRetried ==
    (EndedByRateLimit /\ Last(trace) = "L1_Orchestrator")
        => PlannerGenerationCalls >= DefaultMaxRetries

\* the Planner's one generation call raised ResourceExhausted: the run ended
\* with that exception and the handler answered 500
C21_Witness ==
    /\ trace = <<"L1_Orchestrator">>
    /\ given.l1 = Raises("ResourceExhausted", TRUE)
    /\ PlannerGenerationCalls = 1
    /\ pc = "aborted" /\ error = given.l1
    /\ response.status_code = 500

\* the extraction operations never end a run with a rate-limit failure
\* itself, only with the exception of the exhausted retries
RateLimitOnlyFromPlanner == EndedByRateLimit => Last(trace) = "L1_Orchestrator"

\* a run is under way or has ended
InRun == entry # "none"

\* C22: in both run entry points a step counter with the ceiling 25 bounds
\* the stage invocations of a run, and a run that would exceed it is aborted.
C22_StepCounterInBothEntryPoints ==
    InRun => /\ Ceiling(entry) # None
             /\ Ceiling(entry).limit = recursion_limit
             /\ Len(trace) <= Ceiling(entry).limit

\* C22, amended: only invoke runs under a step limit (25, counted by the
\* compiled graph); invoke_simple counts nothing. Either entry point invokes
\* each of the five stages at most once, so no run performs more than five
\* stage invocations, five is below the limit, and no run is ever ended by
\* the limit.
C22_FiveStagesBelowTheCeiling ==
    InRun =>
        /\ Len(trace) <= Len(SimpleSequence)
        /\ Len(SimpleSequence) < recursion_limit
        /\ Cardinality(Nodes) < recursion_limit
        /\ \A i, j \in 1..Len(trace) : trace[i] = trace[j] => i = j
        /\ entry = "invoke" => Ceiling(entry) = [limit |-> recursion_limit]
        /\ entry = "invoke_simple" => Ceiling(entry) = None
        /\ error # NoError => error.type # "GraphRecursionError"

\* a run of invoke_simple has invoked all five stages with nothing counting
\* them; a run of invoke has done the same under the limit
C22_Witness ==
    /\ entry = "invoke_simple" /\ Len(trace) = 5 /\ Ceiling(entry) = None

C22_WitnessInvoke ==
    /\ entry = "invoke" /\ Len(trace) = 5 /\ Ceiling(entry).limit = 25
    /\ ~OutOfSteps(entry, Len(trace), "END")

\* C23: for every generation response the Planner accepts, no two tasks of
\* the resulting plan have the same task_id.
C23_TaskIdsUnique ==
    PlannerAccepted =>
        \A i, j \in 1..Len(PlannedTasks) :
            PlannedTasks[i].task_id = PlannedTasks[j].task_id => i = j

\* the first task object carries the id "PLAN-2", the second carries none and
\* is given f"PLAN-{len(tasks) + 1}", which is "PLAN-2" again
C23_Witness ==
    /\ PlannerAccepted /\ Len(ResponseTasks) = 2
    /\ Get(ResponseTasks[1], "task_id", "") = "PLAN-2"
    /\ "task_id" \notin DOMAIN ResponseTasks[2]
    /\ PlannedTasks[1].task_id = "PLAN-2" /\ PlannedTasks[2].task_id = "PLAN-2"

\* ids the node makes up itself never collide with each other
DefaultIdsUnique ==
    PlannerAccepted =>
        \A i, j \in 1..Len(PlannedTasks) :
            ("task_id" \notin DOMAIN ResponseTasks[i] /\ "task_id" \notin DOMAIN ResponseTasks[j]
             /\ PlannedTasks[i].task_id = PlannedTasks[j].task_id) => i = j

\* the bracketed tag that opens the log line of a stage
LogTag(n) == IF n = "L1_Orchestrator" THEN "L1" ELSE n

\* the stages of the current run that returned an update
ReturnedStages == IF pc = "aborted" THEN SubSeq(trace, 1, Len(trace) - 1) ELSE trace

\* the log list holds one line per returned stage, in the order of the calls
OneLinePerStage ==
    /\ Len(logs) = Len(ReturnedStages)
    /\ \A i \in 1..Len(logs) : logs[i].node = LogTag(ReturnedStages[i])

\* a step of a run keeps every entry of the log list in place; a stage that
\* returns appends exactly its own line, a stage that raises appends nothing
StageAppendsItsLine ==
    runs' = runs =>
        /\ IsPrefix(logs, logs')
        /\ (trace' # trace /\ pc' # "aborted")
              => /\ logs' = Append(logs, Last(logs'))
                 /\ Last(logs').node = LogTag(Last(trace'))
        /\ pc' = "aborted" => logs' = logs

\* C24: logs are append-only: after every stage the log list is the list
\* before the stage with that stage's line appended, nothing earlier is
\* removed, changed or reordered, and a completed linear run ends with one
\* line per stage in execution order, the Evaluator's last.
C24_LogsAppendOnly ==
    /\ [](InRun => OneLinePerStage)
    /\ [](pc = "done" =>
            /\ Len(logs) = 5
            /\ \A i \in 1..5 : logs[i].node = LogTag(LinearOrder[i]))
    /\ [][StageAppendsItsLine]_vars

\* four stages have returned and the log holds their four lines in order
C24_Witness ==
    /\ pc = "Evaluator" /\ Len(trace) = 4
    /\ Len(logs) = 4
    /\ logs[1].node = "L1" /\ logs[2].node = "L2_Tracking"
    /\ logs[3].node = "L2_Communication" /\ logs[4].node = "Cross_Knowledge"

\* a step of a run leaves the run identifier and the input message alone
StageKeepsIdentity ==
    runs' = runs => state_id' = state_id /\ input_message' = input_message

\* a new run gets an identifier no earlier run had
NewRunNewId == runs' # runs => state_id' # state_id /\ state_id' = runs'

\* C25: the run identifier is assigned once, when the state is created, and is
\* the same in every intermediate state and in the final state of the run; no
\* stage's update changes the run identifier or the input message.
C25_RunIdentifierFixed ==
    /\ [](InRun => state_id = runs /\ input_message \in InputMessages)
    /\ [][StageKeepsIdentity /\ NewRunNewId]_vars

\* the second run of the engine, under the compiled graph, three stages in,
\* still carries the identifier it was created with
C25_Witness ==
    /\ entry = "invoke" /\ runs = 2 /\ state_id = 2
    /\ Len(trace) >= 3 /\ Len(logs) >= 3

\* the status values the ExecutionResult schema admits
ResultStatuses == {"SUCCESS", "FAILED", "PARTIAL"}

\* the key each domain stage stores its result under
ResultKey(n) ==
    CASE n = "L2_Tracking" -> "L2_TRACKING_001"
      [] n = "L2_Communication" -> "L2_COMMUNICATION_001"
      [] n = "Cross_Knowledge" -> "CROSS_KNOWLEDGE_001"

\* the keys of the domain stages of the current run that returned
ReturnedKeys ==
    {ResultKey(ReturnedStages[i]) :
        i \in {j \in 1..Len(ReturnedStages) : ReturnedStages[j] \in DomainNodes}}

\* the map holds one result per returned domain stage, under the stage's key
OneResultPerDomainStage ==
    /\ DOMAIN execution_results = ReturnedKeys
    /\ \A k \in DOMAIN execution_results :
          /\ execution_results[k].task_id = k
          /\ execution_results[k].status \in ResultStatuses

\* a step of a run keeps every stored result; a returning domain stage adds
\* the one key of its own, the Planner and the Evaluator add none
StageAddsOneResult ==
    runs' = runs =>
        /\ \A k \in DOMAIN execution_results :
              k \in DOMAIN execution_results' /\ execution_results'[k] = execution_results[k]
        /\ (trace' # trace /\ pc' # "aborted" /\ Last(trace') \in DomainNodes)
              => /\ ResultKey(Last(trace')) \notin DOMAIN execution_results
                 /\ DOMAIN execution_results' =
                        DOMAIN execution_results \cup {ResultKey(Last(trace'))}
        /\ (trace' # trace /\ Last(trace') \notin DomainNodes)
              => execution_results' = execution_results
        /\ pc' = "aborted" => execution_results' = execution_results

\* C26: the results map grows monotonically: a domain stage adds exactly one
\* result under its fixed key, the Planner and the Evaluator add none, no key
\* is removed, every status is SUCCESS, FAILED or PARTIAL, and a linear run
\* that has run its three domain stages holds exactly three results.
C26_ResultsGrowMonotonically ==
    /\ [](InRun => OneResultPerDomainStage)
    /\ []((pc \in {"Evaluator", "done"} \/ (InRun /\ Len(trace) = 5))
            => Cardinality(DOMAIN execution_results) = 3)
    /\ [][StageAddsOneResult]_vars

\* all five stages were invoked; the map holds the three results of the domain
\* stages, the Evaluator added none
C26_Witness ==
    /\ trace = LinearOrder
    /\ DOMAIN execution_results =
          {"L2_TRACKING_001", "L2_COMMUNICATION_001", "CROSS_KNOWLEDGE_001"}
    /\ \A k \in DOMAIN execution_results : execution_results[k].status = "SUCCESS"

\* the fields of the state a node's update can name
UpdateFields == {"plan", "execution_results", "cross_cutting_context", "logs"}

\* an update that names all four fields, and its restrictions to fewer
FullUpdate ==
    [plan |-> <<Task("PLAN-9", "Cross_Knowledge", 2, "IN_PROGRESS")>>,
     execution_results |->
        WithResult(execution_results, "EXTRA_001",
                   ExecutionResult("EXTRA_001", "L2_Tracking", "PARTIAL", EmptyDict)),
     cross_cutting_context |-> [project_name |-> "other"],
     logs |-> Append(logs, LogLine("other", "line", 0))]

PartialUpdates == {[f \in S |-> FullUpdate[f]] : S \in SUBSET UpdateFields}

\* whatever fields the update of the stage that is due lacks, merging it
\* leaves those fields of the state as they are
AbsentFieldsAreNoOps ==
    pc \in Nodes =>
        \A update \in PartialUpdates : \A f \in UpdateFields \ DOMAIN update :
            Merge(entry, pc, State, update)[f] = State[f]

\* a stage's step changes only the fields its update names: only the Planner
\* writes the plan, only the domain stages the results, only the Knowledge
\* stage the knowledge context
StageWritesOwnFields ==
    (runs' = runs /\ trace' # trace) =>
        /\ Last(trace') # "L1_Orchestrator" => plan' = plan
        /\ Last(trace') \notin DomainNodes => execution_results' = execution_results
        /\ Last(trace') # "Cross_Knowledge"
              => cross_cutting_context' = cross_cutting_context
        /\ Last(trace') = "Evaluator"
              => UNCHANGED <<plan, execution_results, cross_cutting_context,
                             input_message, state_id>>

\* C27: absent fields of a partial update are no-ops, never clears; the plan
\* is written only by the Planner, once per run, and the Evaluator changes
\* nothing but the logs.
C27_AbsentFieldsKept ==
    /\ [](AbsentFieldsAreNoOps)
    /\ [](Cardinality({i \in 1..Len(trace) : trace[i] = "L1_Orchestrator"}) <= 1)
    /\ [][StageWritesOwnFields]_vars

\* the Tracking and Communication stages returned updates without a plan
\* field and without a knowledge-context field; the Planner's two tasks are
\* still the plan
C27_Witness ==
    /\ entry = "invoke_simple" /\ pc = "Cross_Knowledge"
    /\ Len(plan) = 2
    /\ DOMAIN execution_results = {"L2_TRACKING_001", "L2_COMMUNICATION_001"}
    /\ cross_cutting_context = EmptyDict

\* the plan the Planner of the current run built from what the generation
\* service gave it
OwnPlan == node_l1_orchestrator([logs |-> <<>>], given.l1).value.plan

\* every stored result was built in the current run: from this run's
\* message and project and from what the generation service gave this run
OwnResults ==
    /\ "L2_TRACKING_001" \in DOMAIN execution_results =>
          LET output == execution_results["L2_TRACKING_001"].output IN
          /\ output.action_items = given.action_items.value
          /\ output.risks = given.risks.value
          /\ (output.decisions # <<>> <=> HasWillingToPay(input_message.message))
    /\ "L2_COMMUNICATION_001" \in DOMAIN execution_results =>
          execution_results["L2_COMMUNICATION_001"].output.qna_records = given.qna.value
    /\ "CROSS_KNOWLEDGE_001" \in DOMAIN execution_results =>
          /\ execution_results["CROSS_KNOWLEDGE_001"].output.knowledge_context
                = retrieve_knowledge_body(input_message.project_id)
          /\ cross_cutting_context = retrieve_knowledge_body(input_message.project_id)

\* the state of the current run holds what this run's stages produced and
\* nothing else
OnlyOwnProducts ==
    /\ plan = IF Len(ReturnedStages) >= 1 THEN OwnPlan ELSE <<>>
    /\ DOMAIN execution_results = ReturnedKeys
    /\ OwnResults
    /\ "CROSS_KNOWLEDGE_001" \notin DOMAIN execution_results
          => cross_cutting_context = EmptyDict
    /\ Len(logs) = Len(ReturnedStages)
    /\ \A i \in 1..Len(logs) :
          logs[i].node = "Cross_Knowledge" => logs[i].n = input_message.project_id

\* a call of an entry point starts from a new, empty state and leaves the
\* cache as the runs before filled it
RunStartsFresh ==
    runs' # runs =>
        /\ plan' = <<>> /\ execution_results' = EmptyDict
        /\ cross_cutting_context' = EmptyDict /\ logs' = <<>>
        /\ memory_cache' = memory_cache /\ redis_store' = redis_store

C28_WitnessStart ==
    /\ runs = 2 /\ trace = <<>> /\ logs = <<>> /\ execution_results = EmptyDict
    /\ memory_cache # EmptyDict

\* the Planner of the current run returned a plan built from the task
\* objects of a parsed response
PlannerParsedTasks ==
    /\ Len(ReturnedStages) >= 1
    /\ given.l1.kind = "return" /\ given.l1.json
    /\ "tasks" \in DOMAIN given.l1.data

\* the task the router would select names, in the response, a domain that is
\* none of the three defined ones
SelectedNamesUnknownDomain ==
    /\ PlannerParsedTasks /\ plan # <<>>
    /\ Get(given.l1.data.tasks[PyMinIndex(plan)], "domain", "L2_Tracking") \notin TaskType

\* C29: when the task selected by the router has a domain that is not one of
\* the three defined domains, for example because the Planner's generation
\* response named an unknown domain, the router returns Evaluator and the run
\* continues without aborting.
C29_UnknownDomainRoutedToEvaluator ==
    SelectedNamesUnknownDomain =>
        /\ router_l1_to_l2(plan) = "Evaluator"
        /\ Len(trace) = 1 => pc # "aborted"

\* C29, amended: an unknown domain named by the generation response is
\* replaced by the Tracking domain when the Planner builds the plan. No plan
\* of a run holds a domain outside the three defined ones, so the router's
\* Evaluator branch for unrecognized domains is never taken: on such a plan
\* the router returns Tracking; and the run continues with the Tracking
\* stage, as the fixed order has it.
C29_UnknownDomainBecomesTracking ==
    /\ \A i \in 1..Len(plan) : plan[i].domain \in TaskType
    /\ plan # <<>> => router_l1_to_l2(plan) \in TaskType
    /\ SelectedNamesUnknownDomain =>
          /\ plan[PyMinIndex(plan)].domain = "L2_Tracking"
          /\ router_l1_to_l2(plan) = "L2_Tracking"
          /\ Len(trace) = 1 => pc = "L2_Tracking"

\* the Planner was given a response whose first task names an extraction
\* operation as its domain: the plan's task is a Tracking task and the
\* Tracking stage is due
C29_Witness ==
    /\ SelectedNamesUnknownDomain
    /\ trace = <<"L1_Orchestrator">> /\ pc = "L2_Tracking"
    /\ given.l1.data.tasks[1].domain = "action_item_extraction"
    /\ plan[1].domain = "L2_Tracking"
    /\ PyMinIndex(plan) = 1

\* schemas.L3TaskType: the names of the extraction operations
L3TaskType == {"action_item_extraction", "risk_extraction", "qna_generation"}

\* C30: every task of a plan the Planner produces is tagged with exactly one
\* of the three defined domains, never with an extraction operation; a parsed
\* task that has no domain field is given the Tracking domain.
C30_TasksTaggedWithDomain ==
    PlannerAccepted =>
        /\ Len(PlannedTasks) = Len(ResponseTasks)
        /\ \A i \in 1..Len(PlannedTasks) :
              /\ PlannedTasks[i].domain \in TaskType
              /\ PlannedTasks[i].domain \notin L3TaskType
              /\ "domain" \notin DOMAIN ResponseTasks[i]
                    => PlannedTasks[i].domain = "L2_Tracking"
              /\ ("domain" \in DOMAIN ResponseTasks[i]
                    /\ ResponseTasks[i].domain \in TaskType)
                    => PlannedTasks[i].domain = ResponseTasks[i].domain

\* a response with a task that has no domain field and a task that names an
\* extraction operation: both are Tracking tasks in the plan
C30_Witness ==
    /\ PlannerAccepted /\ Len(ResponseTasks) = 2
    /\ "domain" \notin DOMAIN ResponseTasks[1]
    /\ Get(ResponseTasks[2], "domain", "") = "action_item_extraction"
    /\ PlannedTasks[1].domain = "L2_Tracking" /\ PlannedTasks[2].domain = "L2_Tracking"

\* the response was valid JSON that is no object, or an object without "tasks"
SchemaMismatch ==
    /\ pl_response.kind = "return" /\ pl_response.json
    /\ (~pl_response.data.object \/ "tasks" \notin DOMAIN pl_response.data)

\* the plan the except json.JSONDecodeError branch leads to
FallbackPlan == BuildTasks(FallbackPlanData.tasks)

\* C31: when the generation response is valid JSON that does not match the
\* schema (no object, or no tasks array), the Planner synthesizes the fixed
\* two-task fallback plan, as for a parse failure, instead of aborting or
\* producing an empty plan.
C31_SchemaMismatchFallsBack ==
    (pl_out.called /\ SchemaMismatch) =>
        /\ pl_out.out.kind = "return"
        /\ pl_out.out.value.plan = FallbackPlan

\* valid JSON that is no object: plan_data.get raises AttributeError and the
\* node returns nothing
C31_Witness ==
    /\ pl_out.called /\ SchemaMismatch /\ ~pl_response.data.object
    /\ pl_out.out = Raises("AttributeError", FALSE)

\* an object without "tasks": the node returns the empty plan
C31_WitnessEmptyPlan ==
    /\ pl_out.called /\ SchemaMismatch /\ pl_response.data.object
    /\ pl_out.out.kind = "return" /\ pl_out.out.value.plan = <<>>

\* the fallback plan is synthesized for a parse failure and for nothing else
FallbackOnlyOnParseFailure ==
    (pl_out.called /\ pl_response.kind = "return" /\ ~pl_response.json)
        => pl_out.out.kind = "return" /\ pl_out.out.value.plan = FallbackPlan

\* the first n invocations of the operation's body fail with a rate-limit
\* classified error
OpFailsRetryably(op, n) ==
    \A k \in 1..n : tk_script[op][k].kind = "raise" /\ IsRetryable(tk_script[op][k])

\* the claimed position of each external call within one stage invocation
ClaimedPosition(c) ==
    CASE c = "retrieve_knowledge" -> 1
      [] c = "extract_action_items" -> 2
      [] c = "extract_risks" -> 3

\* the call log follows the order of the body: the knowledge lookup, then
\* action-item extraction, then risk extraction
CallsInBodyOrder ==
    \A i, j \in 1..Len(tk_log) :
        i < j => ClaimedPosition(tk_log[i]) <= ClaimedPosition(tk_log[j])

\* C32: within one Tracking stage invocation the external calls are made in
\* the order knowledge lookup, action-item extraction, risk extraction; if
\* risk extraction fails with rate-limit errors k < max_retries times before
\* succeeding, the knowledge lookup and the action-item extraction are each
\* invoked exactly once and only risk extraction is invoked k + 1 times.
C32_RetriedIndependently ==
    /\ tk_pc # "idle" => CallsInBodyOrder
    /\ \A k \in 0..(DefaultMaxRetries - 1) :
          (/\ tk_pc \in {"returned", "raised"}
           /\ tk_script["extract_action_items"][1].kind = "return"
           /\ OpFailsRetryably("extract_risks", k)
           /\ tk_script["extract_risks"][k + 1].kind = "return")
          => /\ tk_pc = "returned"
             /\ Count(tk_log, "retrieve_knowledge") = 1
             /\ Count(tk_log, "extract_action_items") = 1
             /\ Count(tk_log, "extract_risks") = k + 1
             /\ Len(tk_slept["extract_risks"]) = k
             /\ tk_slept["extract_action_items"] = <<>>

\* risk extraction failed twice with a rate-limit error and then succeeded:
\* five external calls, three of them risk extraction
C32_Witness ==
    /\ tk_pc = "returned"
    /\ tk_log = <<"retrieve_knowledge", "extract_action_items",
                  "extract_risks", "extract_risks", "extract_risks">>
    /\ OpFailsRetryably("extract_risks", 2)

\* the invocations of the operation's body made so far that failed with a
\* rate-limit classified error
RetryableFailures(op) ==
    {k \in 1..Count(tk_log, op) :
        tk_script[op][k].kind = "raise" /\ IsRetryable(tk_script[op][k])}

\* C33: within one wrapped call the delay slept after the k-th retryable
\* failure is initial_delay * 2^(k-1) (4, 8, 16 with the defaults); the delay
\* doubles only on retryable failures and starts at initial_delay again in
\* every new wrapped call.
C33_ExponentialBackoff ==
    tk_pc # "idle" =>
        /\ \A op \in WrappedOps :
              /\ Len(tk_slept[op]) = Cardinality(RetryableFailures(op))
              /\ \A k \in 1..Len(tk_slept[op]) :
                    tk_slept[op][k] = initial_delay * 2 ^ (k - 1)
              /\ IsPrefix(tk_slept[op], <<4, 8, 16>>)
        /\ tk_pc \in WrappedOps
              => /\ tk_retries = Cardinality(RetryableFailures(tk_pc))
                 /\ tk_delay = initial_delay * 2 ^ tk_retries

\* action-item extraction slept 4 and 8 seconds and then succeeded; the
\* wrapped call of risk extraction that followed slept 4, 8 and 16 seconds
C33_Witness ==
    /\ tk_pc = "raised"
    /\ tk_slept["extract_action_items"] = <<4, 8>>
    /\ tk_slept["extract_risks"] = <<4, 8, 16>>

\* the sum of the sleeps of a wrapped call
RECURSIVE SumSeq(_)
SumSeq(q) == IF q = <<>> THEN 0 ELSE q[1] + SumSeq(Tail(q))

\* C36: on retry exhaustion the wrapper has slept after every retryable
\* failure, the last one included: when func fails retryably max_retries
\* times, the wrapper sleeps exactly max_retries times (4 + 8 + 16 seconds by
\* default), and after the final sleep it raises the retries-exhausted
\* failure without invoking func again.
C36_SleepsBeforeGivingUp ==
    /\ Len(slept) = retries
    /\ r_pc = "exhausted" =>
          /\ FailsRetryably(max_retries)
          /\ Len(slept) = max_retries
          /\ calls = max_retries
          /\ r_out = MaxRetriesExceeded(FuncName)
          /\ max_retries = DefaultMaxRetries
                => slept = <<4, 8, 16>> /\ SumSeq(slept) = 28

\* three retryable failures with the default limit: three invocations, three
\* sleeps of 28 seconds in all, then the retries-exhausted failure
C36_Witness ==
    /\ r_pc = "exhausted" /\ max_retries = DefaultMaxRetries
    /\ calls = 3 /\ slept = <<4, 8, 16>>

\* the last wrapper call was a full miss whose func raised
FailedCompute == Called /\ c_call.computed /\ c_call.out.kind = "raise"

\* after a failed compute the _memory_cache entry of the key is what it was
\* before the call: absent, or the expired entry
FailureNotStored ==
    FailedCompute =>
        /\ c_call.funcRaises /\ c_call.tier = "func"
        /\ IF c_call.memBefore = None THEN c_call.key \notin DOMAIN memory_cache
           ELSE /\ memory_cache[c_call.key] = c_call.memBefore
                /\ ~MemoryFresh(c_call.memBefore, c_call.at)

\* a wrapper call whose func raises changes neither store
FailedComputeWritesNothing ==
    (c_call' # c_call /\ c_call'.computed /\ c_call'.out.kind = "raise")
        => memory_cache' = memory_cache /\ redis_store' = redis_store

\* the call with the same key that follows a failed compute is not served
\* from _memory_cache, and it invokes func again unless Redis, which the
\* failed call could not read, serves it
NextCallComputesAgain ==
    (FailedCompute /\ c_call' # c_call /\ c_call'.key = c_call.key)
        => /\ c_call'.tier # "memory"
           /\ ~c_call.primaryFailed => c_call'.computed

\* C37: a failing compute leaves the cache unchanged: if func raises on a
\* full miss, the wrapper propagates the failure and writes nothing to either
\* tier, so the next call with the same key is again a miss and invokes func
\* again.
C37_FailuresNeverCached ==
    /\ [](FailureNotStored)
    /\ [][FailedComputeWritesNothing /\ NextCallComputesAgain]_vars

\* func raised on a full miss with Redis up: the exception came out and both
\* stores are still empty
C37_Witness ==
    /\ FailedCompute /\ ~c_call.primaryFailed
    /\ c_call.out = Raises("Exception", FALSE)
    /\ memory_cache = EmptyDict /\ redis_store = EmptyDict

\* func raised when the stored entry had expired: the expired entry is still
\* the stored one
C37_WitnessExpired ==
    /\ FailedCompute /\ c_call.memBefore # None
    /\ memory_cache[c_call.key] = c_call.memBefore

\* the state invoke / invoke_simple construct for the current input message
NewState ==
    [input_message |-> input_message, plan |-> <<>>, execution_results |-> EmptyDict,
     cross_cutting_context |-> EmptyDict, logs |-> <<>>, state_id |-> state_id]

\* what the node n does on the state st when the external services answer
\* as they answered the current run
NodeOutcome(n, st) ==
    LET knowledge == retrieve_knowledge_body(st.input_message.project_id) IN
    CASE n = "L1_Orchestrator" -> node_l1_orchestrator(st, given.l1)
      [] n = "L2_Tracking" ->
            node_l2_tracking(st, knowledge, given.action_items,
                             Get(given, "risks", given.action_items))
      [] n = "L2_Communication" -> node_l2_communication(st, knowledge, given.qna)
      [] n = "Cross_Knowledge" -> node_cross_knowledge(st, knowledge)
      [] n = "Evaluator" -> node_evaluator(st)

\* the run of entry point e on the current input message and the current
\* answers of the external services, after k stage invocations: the stages
\* invoked, the state, and where the run stands
RECURSIVE Replay(_, _)
Replay(e, k) ==
    IF k = 0
    THEN [trace |-> <<>>, st |-> NewState, pc |-> PcOf(NextNode(e, "START", NewState)),
          error |-> NoError]
    ELSE LET before == Replay(e, k - 1)
             n == before.pc
             outcome == NodeOutcome(n, before.st) IN
         IF outcome.kind = "raise"
         THEN [trace |-> Append(before.trace, n), st |-> before.st,
               pc |-> "aborted", error |-> outcome]
         ELSE LET merged == Merge(e, n, before.st, outcome.value) IN
              [trace |-> Append(before.trace, n), st |-> merged,
               pc |-> PcOf(NextNode(e, n, merged)), error |-> NoError]

\* where the current run stands, in the form Replay gives
Current == [trace |-> trace, st |-> State, pc |-> pc, error |-> error]

\* C34: the two run entry points are equivalent executors of the same stage
\* set: for the same input message and the same responses of the external
\* services, invoke and invoke_simple invoke the same stages in the same
\* order and end with the same plan, results, knowledge context and log
\* lines.
C34_EntryPointsEquivalent ==
    InRun =>
        /\ Current = Replay(entry, Len(trace))
        /\ Replay("invoke", Len(trace)) = Replay("invoke_simple", Len(trace))

\* a run of invoke got as far as the Evaluator; invoke_simple on the same
\* inputs invokes the same five stages and ends with the same three results,
\* knowledge context and four log lines
C34_Witness ==
    /\ entry = "invoke" /\ trace = LinearOrder
    /\ Replay("invoke_simple", 5).trace = LinearOrder
    /\ Replay("invoke_simple", 5).st = State
    /\ Cardinality(DOMAIN execution_results) = 3 /\ Len(logs) = 4
    /\ cross_cutting_context # EmptyDict /\ Len(plan) = 2

\* the keys evaluate_output looks for in a result's output
ConfidenceKeys == {"extraction_confidence", "generation_confidence"}

\* no stored result's output has a confidence key: the coordinators take the
\* record lists of the extraction results and leave their confidence behind
NoConfidenceInOutputs ==
    \A k \in DOMAIN execution_results :
        DOMAIN execution_results[k].output \cap ConfidenceKeys = {}

\* ExecutionResult.dict() for every value of the map
AsDicts(results) == [k \in DOMAIN results |-> [results[k] EXCEPT !.py = "dict"]]

LowConfidenceText == "Consider re-running with higher model precision"

\* the evaluation has average_confidence 0 and the low-confidence
\* recommendation
ZeroConfidenceEvaluation(evaluation) ==
    /\ evaluation.kind = "return"
    /\ evaluation.value.average_confidence = Ratio(0, 1)
    /\ HasRecommendation(evaluation.value, LowConfidenceText)

\* C35: in every run that runs all its stages no ExecutionResult output
\* carries an extraction or generation confidence key, so the evaluation the
\* Evaluator computes from the run's results has average_confidence 0 and
\* holds the low-confidence recommendation.
C35_AverageConfidenceAlwaysZero ==
    trace = LinearOrder =>
        /\ NoConfidenceInOutputs
        /\ ZeroConfidenceEvaluation(evaluate_output(execution_results))

\* the Evaluator was invoked on three results without a confidence key and
\* raised instead of computing an evaluation
C35_Witness ==
    /\ trace = LinearOrder /\ Cardinality(DOMAIN execution_results) = 3
    /\ NoConfidenceInOutputs
    /\ evaluate_output(execution_results) = Raises("AttributeError", FALSE)
    /\ pc = "aborted" /\ error = Raises("AttributeError", FALSE)

\* on the same results as dicts evaluate_output would return the evaluation
\* the claim describes
ZeroConfidenceOnDicts ==
    /\ NoConfidenceInOutputs
    /\ trace = LinearOrder
          => ZeroConfidenceEvaluation(evaluate_output(AsDicts(execution_results)))

\* the values the Task schema admits for status
TaskStatuses == {"PENDING", "IN_PROGRESS", "COMPLETED", "FAILED"}

\* the stage of a task's domain has run and returned in the current run
DomainStageRan(task) == \E i \in 1..Len(ReturnedStages) : ReturnedStages[i] = task.domain

\* C38: task status never advances: every task the Planner puts in the plan
\* has status IN_PROGRESS, never PENDING, and no stage changes any task
\* afterwards, so every task of every later state of the run, the last one
\* included, still has status IN_PROGRESS and none is COMPLETED or FAILED,
\* even after the stage of its domain has run.
C38_TaskStatusNeverAdvances ==
    InRun =>
        /\ \A i \in 1..Len(plan) :
              /\ plan[i].status \in TaskStatuses
              /\ plan[i].status = "IN_PROGRESS"
              /\ DomainStageRan(plan[i]) => plan[i].status \notin {"COMPLETED", "FAILED"}
        /\ Len(ReturnedStages) >= 1 => plan = OwnPlan
        /\ pc = "done" => \A i \in 1..Len(plan) : plan[i].status = "IN_PROGRESS"

\* the three domain stages have run, among them the stages of both tasks of
\* the plan, and both tasks are still IN_PROGRESS
C38_Witness ==
    /\ trace = LinearOrder /\ Len(plan) = 2
    /\ plan[1].domain = "L2_Tracking" /\ plan[2].domain = "Cross_Knowledge"
    /\ DomainStageRan(plan[1]) /\ DomainStageRan(plan[2])
    /\ plan[1].status = "IN_PROGRESS" /\ plan[2].status = "IN_PROGRESS"

====
